---- MODULE Spec2Model ----
(***************************************************************************)
(* A model of the memoization layer: the Memoizer (sync_wrapper), the      *)
(* in-process Store (MemoryStorage / CacheEntry) with its keyed lock       *)
(* registry (SYNC_LOCKS) and Sweeper (clear_expired_cached_items), the     *)
(* Redis Store and lock (RedisStorage / RedisLockManager) and the          *)
(* never-die Refresher (_refresh_never_die_caches).                        *)
(*                                                                         *)
(* Time is counted in whole ticks; a ttl is a whole number of ticks.       *)
(* The never-die backoff, a power of 1.25, is kept as an exact fraction.   *)
(***************************************************************************)
EXTENDS Integers, Sequences, FiniteSets, TLC

\* ---------------------------------------------------------------- bounds
NumCallers == 2
MaxCalls == 3
MaxTime == 2
\* the ttl of every decorated function and the lock_timeout of the Redis
\* configuration, in ticks
TTL == 1
LockTimeout == 1
\* the counters of the model (executions, launches, failures) count up to
\* MaxCount and stay there, which keeps a process that runs forever finite
MaxCount == 64
Bump(n) == IF n < MaxCount THEN n + 1 ELSE n

\* ------------------------------------------------- constants of the code
MAX_BACKOFF == 10
\* _BACKOFF_MULTIPLIER = 1.25, as numerator over denominator
BACKOFF_MULTIPLIER == <<5, 4>>

\* ------------------------------------------------------------- universes
Callers == 1..NumCallers
\* the thread the Refresher starts for an entry of the registry
Worker == 0
Threads == Callers \cup {Worker}
\* f and g are decorated with @cache(ttl=TTL), h and k with
\* @cache(ttl=TTL, never_die=True), r, u, w and a with @redis_cache(ttl=TTL);
\* u returns a value that pickle rejects (a lambda) and w a list nested
\* deeper than the interpreter's recursion limit; a is a coroutine function,
\* whose callers are tasks and go through async_wrapper, which is
\* sync_wrapper with aget, aset and async_lock; c is a coroutine function
\* decorated with @cache(ttl=TTL, never_die=True)
Funcs == {"f", "g", "h", "k", "r", "u", "w", "a", "c"}
\* get_function_id: the id of a function is its qualified name, by which
\* the functions are named here
get_function_id(fn) == fn
never_die(fn) == fn \in {"h", "k", "c"}
IsRedis(fn) == fn \in {"r", "u", "w", "a"}
iscoroutinefunction(fn) == fn \in {"a", "c"}
Args == {-2, -1, 5, 10}
\* the calls the callers may make: <<function, argument, skip_cache>>
OneKeySpace == {<<"f", 5, FALSE>>, <<"f", 5, TRUE>>}
ManyKeySpace == {<<"f", -2, FALSE>>, <<"f", -1, FALSE>>, <<"f", 5, FALSE>>}
TwoFuncSpace == {<<"f", 5, FALSE>>, <<"g", 5, FALSE>>}
RedisSpace == {<<"f", 5, FALSE>>, <<"r", 5, FALSE>>}
NeverDieSpace == {<<"f", 5, FALSE>>, <<"h", 5, FALSE>>}
None == "None"
NoDict == 0
\* Python's None as a ttl, as a result and as a cache entry
NoTTL == -1
NoResult == <<>>
NoEntry == [result |-> NoResult, ttl |-> NoTTL, cached_at |-> -1, expires_at |-> -1]

\* ------------------------------------------------------------ RedisConfig
\* a client is known by whether it was given (is not None)
RedisConfig(sync_client, async_client, key_prefix, lock_timeout, on_error) ==
  [set |-> TRUE, sync_client |-> sync_client, async_client |-> async_client,
   key_prefix |-> key_prefix, lock_timeout |-> lock_timeout, on_error |-> on_error]

\* _redis_config = None
NoConfig ==
  [set |-> FALSE, sync_client |-> FALSE, async_client |-> FALSE,
   key_prefix |-> "", lock_timeout |-> 0, on_error |-> ""]

\* setup_redis_config(sync_client=client, lock_timeout=LockTimeout)
DefaultConfig == RedisConfig(TRUE, FALSE, "cache", LockTimeout, "silent")

\* a test that is content with either client
ClientGivenEither(cfg, fn) ==
  cfg.set /\ (cfg.async_client \/ cfg.sync_client)

\* _require_sync_client, _require_async_client and the same test in
\* sync_lock and async_lock: the client for the call style of fn was given
ClientGiven(cfg, fn) ==
  cfg.set /\ IF iscoroutinefunction(fn) THEN cfg.async_client ELSE cfg.sync_client

\* no cache key is being derived
NoFrame == [pc |-> "idle"]

\* no background thread has been started: the globals _NEVER_DIE_THREAD and
\* _CACHE_CLEAR_THREAD are None (0), their locks are free and nobody is in
\* _start_never_die_thread or _start_cache_clear_thread
NoLoops ==
  [thread |-> [w \in {"sweeper", "refresher"} |-> 0],
   lock |-> [w \in {"sweeper", "refresher"} |-> 0],
   alive |-> {}, started |-> 0,
   pc |-> [t \in Callers |-> [pc |-> "idle", which |-> ""]]]

\* RedisStorage.set has not been called
NoNative == [pc |-> "idle", entry |-> NoEntry, key |-> NoEntry, deadline |-> NoTTL]

\* the Refresher has started no thread and the registry has never been
\* cleared
NoThreads ==
  [objs |-> <<>>, serial |-> <<>>, of |-> <<>>, alive |-> {},
   clearing |-> FALSE, clears |-> 0, pending |-> {}, cleared |-> {}]

\* no call of the configuration surface has been made; n counts the calls
NoCall == [op |-> "", out |-> "", n |-> 0, args |-> <<>>]

VARIABLES
  now,         \* time.monotonic() and time.time()
  CACHE,       \* MemoryStorage._CACHE
  SYNC_LOCKS,  \* the outer defaultdict: function id -> inner defaultdict
  held,        \* the threading.Lock objects that are locked
  dicts,       \* the number of inner defaultdicts created so far
  call_count,  \* per function, the number of executions started
  th,          \* the threads: the callers and the Refresher's worker
  sweeper,     \* the Sweeper thread
  space,       \* the calls the callers may make
  budget,      \* the number of calls the callers may still make
  REDIS,       \* the cache keys of the Redis server
  REDIS_LOCKS, \* the lock keys of the Redis server
  redis_up,    \* whether a command sent to the Redis server is answered
  NEVER_DIE_REGISTRY,  \* _NEVER_DIE_REGISTRY
  refresher,   \* the Refresher thread
  SHADOW,      \* history: what set() has written, never swept
  skipped,     \* history: the keys last written by a skip_cache call
  raised,      \* history: the keys whose last finished execution raised,
               \* no call for them made since
  unreleased,  \* history: the Redis locks whose release command failed
  failures,    \* history: per entry of the registry, the refreshes that have
               \* failed since the entry was last reset
  redis_config,  \* _redis_config
  last,        \* the last call of the configuration surface and how it ended
  frame,       \* the locals of create_cache_key and of the fingerprint it runs
  loops,       \* the background threads, their module globals and start locks
  loop_closed, \* whether the callers' event loop has been closed
  native,      \* RedisStorage.set with a ttl in fractions of a second: the entry
               \* built, the command sent and the key's deadline at the server
  NEVER_DIE_CACHE_THREADS,  \* _NEVER_DIE_CACHE_THREADS: cache key -> thread
  refresh_threads  \* the threads started by the Refresher: which are alive,
               \* and which entries were registered before the last clear

vars == <<now, CACHE, SYNC_LOCKS, held, dicts, call_count, th, sweeper, space, budget, REDIS, REDIS_LOCKS, redis_up, NEVER_DIE_REGISTRY, refresher, SHADOW, skipped, raised, unreleased, failures, redis_config, last, frame, loops, loop_closed, native, NEVER_DIE_CACHE_THREADS, refresh_threads>>

extras == <<frame, loops, loop_closed, native, NEVER_DIE_CACHE_THREADS, refresh_threads>>

\* ------------------------------------------------------------ cache keys
\* CPython's hash of a small int: the value itself, except that -1 is
\* reserved as the error code and hashes to -2
PyHash(x) == IF x = -1 THEN -2 ELSE x

\* MemoryStorage.create_cache_key: str(hash(items)) of the bound arguments;
\* the hash of the items tuple is a function of the hashes of its elements
CreateCacheKey(x) == PyHash(x)

\* ------------------------------------------------------------ CacheEntry
\* CacheEntry.__post_init__: cached_at = time(); expires_at = 0 if ttl is None
\* else cached_at + ttl
CacheEntry(result, ttl, t) ==
  [result |-> result, ttl |-> ttl, cached_at |-> t,
   expires_at |-> IF ttl = NoTTL THEN 0 ELSE t + ttl]

\* CacheEntry.is_expired
EntryIsExpired(e, t) ==
  IF e.ttl = NoTTL THEN FALSE ELSE t > e.expires_at

\* --------------------------------------------- the dict MemoryStorage._CACHE
\* a Python dict, kept as the sequence of its items in insertion order
HasKey(cache, key) == \E i \in DOMAIN cache : cache[i].key = key

DictGet(cache, key) ==
  IF HasKey(cache, key)
  THEN cache[CHOOSE i \in DOMAIN cache : cache[i].key = key].entry
  ELSE NoEntry

DictSet(cache, key, e) ==
  IF HasKey(cache, key)
  THEN [i \in DOMAIN cache |->
          IF cache[i].key = key THEN [key |-> key, entry |-> e] ELSE cache[i]]
  ELSE Append(cache, [key |-> key, entry |-> e])

DictDel(cache, key) == SelectSeq(cache, LAMBDA it : it.key # key)

\* a get that looks the entry up by the cache key alone, whatever the function
MemoryGetByCacheKey(cache, fid, ck, skip, t) ==
  IF skip \/ ~\E i \in DOMAIN cache : cache[i].key[2] = ck THEN NoEntry
  ELSE LET e == cache[CHOOSE i \in DOMAIN cache : cache[i].key[2] = ck].entry
       IN IF ~EntryIsExpired(e, t) THEN e ELSE NoEntry

\* a get that returns an entry whether it has expired or not
MemoryGetStale(cache, fid, ck, skip, t) ==
  IF skip THEN NoEntry ELSE DictGet(cache, <<fid, ck>>)

\* MemoryStorage.get
MemoryGet(cache, fid, ck, skip, t) ==
  IF skip THEN NoEntry
  ELSE LET e == DictGet(cache, <<fid, ck>>)
       IN IF e # NoEntry /\ ~EntryIsExpired(e, t) THEN e ELSE NoEntry

\* MemoryStorage.set
MemorySet(cache, fid, ck, result, ttl, t) ==
  DictSet(cache, <<fid, ck>>, CacheEntry(result, ttl, t))

\* ---------------------------------------------------------- RedisStorage
\* what RedisStorage.set puts under a key: the pickled RedisCacheEntry, and
\* px, the time at which the server drops the key (setex with int(ttl) + 1,
\* set without a deadline when ttl is None)
RedisCacheEntry(result, ttl, t) ==
  [result |-> result, ttl |-> ttl, cached_at |-> t,
   expires_at |-> IF ttl = NoTTL THEN 0 ELSE t + ttl,
   px |-> IF ttl = NoTTL THEN NoTTL ELSE t + ttl + 1,
   pickled |-> TRUE]

\* bytes under a cache key that pickle.loads cannot load
Garbage ==
  [result |-> NoResult, ttl |-> NoTTL, cached_at |-> -1, expires_at |-> -1,
   px |-> NoTTL, pickled |-> FALSE]

\* the exception pickle.dumps raises on an entry with the result, "" if it
\* returns the bytes
pickle_dumps(result) ==
  IF result[1] = "u" THEN "PicklingError"
  ELSE IF result[1] = "w" THEN "RecursionError"
  ELSE ""

\* RedisStorage._serialize: the exception it raises, "" if it returns
serialize(result) ==
  IF pickle_dumps(result) \in {"PicklingError", "TypeError", "AttributeError"}
  THEN "TypeError"
  ELSE pickle_dumps(result)

Picklable(result) == pickle_dumps(result) = ""

\* RedisStorage.get with on_error = "silent": a command that fails is a miss
RedisGet(redis, fid, ck, skip, t, up) ==
  IF skip \/ ~up THEN NoEntry
  ELSE LET e == DictGet(redis, <<fid, ck>>)
       IN IF e = NoEntry THEN NoEntry
          ELSE IF e.px # NoTTL /\ t >= e.px THEN NoEntry
          ELSE IF ~e.pickled THEN NoEntry
          ELSE IF EntryIsExpired(e, t) THEN NoEntry
          ELSE e

\* the read of RedisStorage.get fails: the command, or pickle.loads
ReadFails(redis, fid, ck, t, up) ==
  \/ ~up
  \/ LET e == DictGet(redis, <<fid, ck>>)
     IN e # NoEntry /\ ~(e.px # NoTTL /\ t >= e.px) /\ ~e.pickled

\* a get that raises whatever on_error says
RedisGetErrorRaising(cfg, redis, fid, ck, skip, t, up) ==
  IF skip THEN ""
  ELSE IF ~ClientGiven(cfg, fid) THEN "RuntimeError"
  ELSE IF ReadFails(redis, fid, ck, t, up)
  THEN IF up THEN "UnpicklingError" ELSE "ConnectionError"
  ELSE ""

\* the exception RedisStorage.get (aget) raises, "" if it returns: the
\* client is required before the try; inside it on_error decides
RedisGetError(cfg, redis, fid, ck, skip, t, up) ==
  IF skip THEN ""
  ELSE IF ~ClientGiven(cfg, fid) THEN "RuntimeError"
  ELSE IF cfg.on_error = "raise" /\ ReadFails(redis, fid, ck, t, up)
  THEN IF up THEN "UnpicklingError" ELSE "ConnectionError"
  ELSE ""

\* the exception RedisStorage.set (aset) raises, "" if it returns: the
\* client is required and the entry serialized before the try; inside it
\* on_error decides
RedisSetError(cfg, fid, result, up) ==
  IF ~ClientGiven(cfg, fid) THEN "RuntimeError"
  ELSE IF serialize(result) # "" THEN serialize(result)
  ELSE IF ~up /\ cfg.on_error = "raise" THEN "ConnectionError"
  ELSE ""

\* RedisStorage.set with on_error = "silent": a command that fails is dropped
RedisSet(redis, fid, ck, result, ttl, t, up) ==
  IF up THEN DictSet(redis, <<fid, ck>>, RedisCacheEntry(result, ttl, t))
  ELSE redis

\* backend.get of sync_wrapper, by the decorator of the function
StorageGet(fid, ck, skip) ==
  IF IsRedis(fid) THEN RedisGet(REDIS, fid, ck, skip, now, redis_up)
  ELSE MemoryGet(CACHE, fid, ck, skip, now)

\* the exception backend.get raises, "" if it returns
StorageGetError(fid, ck, skip) ==
  IF IsRedis(fid) THEN RedisGetError(redis_config, REDIS, fid, ck, skip, now, redis_up)
  ELSE ""

\* ---------------------------------------------------------------- threads
\* a caller is idle before its first call and again after each call, when
\* result, exc and executed tell how its last call ended; the worker is idle
\* when no thread of the Refresher is alive. n counts the calls of a thread
\* and backed_off tells that, when the call was made, the entry of its
\* arguments in the registry had been revived
IdleCaller ==
  [pc |-> "idle", fid |-> None, arg |-> 0, skip |-> FALSE, d |-> NoDict,
   val |-> NoResult, result |-> NoResult, exc |-> FALSE, executed |-> FALSE,
   n |-> 0, backed_off |-> FALSE, err |-> ""]

\* nothing has been called yet
Begin ==
  /\ now = 0
  /\ CACHE = <<>>
  /\ SYNC_LOCKS = [f \in Funcs |-> NoDict]
  /\ held = {}
  /\ dicts = 0
  /\ call_count = [f \in Funcs |-> 0]
  /\ th = [t \in Threads |-> IdleCaller]
  /\ sweeper = [pc |-> "sleep", snap |-> <<>>]
  /\ REDIS = <<>>
  /\ REDIS_LOCKS = {}
  /\ redis_up = TRUE
  /\ NEVER_DIE_REGISTRY = <<>>
  /\ refresher = [pc |-> "off", snap |-> <<>>]
  /\ SHADOW = <<>>
  /\ skipped = {}
  /\ raised = {}
  /\ unreleased = {}
  /\ failures = <<>>
  /\ frame = NoFrame
  /\ loops = NoLoops
  /\ native = NoNative
  /\ NEVER_DIE_CACHE_THREADS = <<>>
  /\ refresh_threads = NoThreads
  /\ loop_closed = FALSE

\* and no call of the configuration surface has been made
Start == Begin /\ last = NoCall

Init == Start /\ budget = MaxCalls /\ space = OneKeySpace /\ redis_config = DefaultConfig

InitKeys == Start /\ budget = MaxCalls /\ space = ManyKeySpace /\ redis_config = DefaultConfig

InitFuncs == Start /\ budget = MaxCalls /\ space = TwoFuncSpace /\ redis_config = DefaultConfig

InitRedis == Start /\ budget = MaxCalls /\ space = RedisSpace /\ redis_config = DefaultConfig

InitNeverDie == Start /\ budget = MaxCalls - 1 /\ space = NeverDieSpace /\ redis_config = DefaultConfig

lockvars == <<SYNC_LOCKS, held, dicts>>
redisvars == <<REDIS, REDIS_LOCKS, redis_up, unreleased, redis_config>>
ndvars == <<NEVER_DIE_REGISTRY, refresher, failures>>

\* the key of the Store and of the lock registry: (function_id, cache_key)
KeyOf(c) == <<c.fid, CreateCacheKey(c.arg)>>

\* the lock object inner[cache_key] of the inner defaultdict a thread holds
LockOf(c) == <<c.d, c.fid, CreateCacheKey(c.arg)>>

\* ------------------------------------------------ NeverDieCacheEntry
\* a fraction a/b as <<a, b>>
Times(p, q) == <<p[1] * q[1], p[2] * q[2]>>
Greater(p, q) == p[1] * q[2] > q[1] * p[2]

\* NeverDieCacheEntry.__post_init__ and reset
NeverDieCacheEntry(fid, x, t) ==
  [fid |-> fid, arg |-> x, backoff |-> <<1, 1>>, expires_at |-> <<t + TTL, 1>>]

\* NeverDieCacheEntry.is_expired
NeverDieIsExpired(e, t) == Greater(<<t, 1>>, e.expires_at)

\* NeverDieCacheEntry.reset
reset(e, t) == [e EXCEPT !.backoff = <<1, 1>>, !.expires_at = <<t + TTL, 1>>]

\* a revive that sets the next due time without the backoff
reviveWithoutBackoff(e, t) ==
  LET grown == Times(e.backoff, BACKOFF_MULTIPLIER)
      b == IF Greater(grown, <<MAX_BACKOFF, 1>>) THEN <<MAX_BACKOFF, 1>> ELSE grown
  IN [e EXCEPT !.backoff = b, !.expires_at = <<t + TTL, 1>>]

\* NeverDieCacheEntry.revive
revive(e, t) ==
  LET grown == Times(e.backoff, BACKOFF_MULTIPLIER)
      b == IF Greater(grown, <<MAX_BACKOFF, 1>>) THEN <<MAX_BACKOFF, 1>> ELSE grown
  IN [e EXCEPT !.backoff = b,
               !.expires_at = <<t * b[2] + TTL * b[1], b[2]>>]

\* NeverDieCacheEntry.__eq__: the same function id and cache key
SameEntry(e, fid, x) == e.fid = fid /\ CreateCacheKey(e.arg) = CreateCacheKey(x)

\* a registration that appends without looking for an equal entry
register_always(reg, fid, x, t) == Append(reg, NeverDieCacheEntry(fid, x, t))

\* register_never_die_function: append the entry unless an equal one is there
register_never_die_function(reg, fid, x, t) ==
  IF \E i \in DOMAIN reg : SameEntry(reg[i], fid, x) THEN reg
  ELSE Append(reg, NeverDieCacheEntry(fid, x, t))

\* ---------------------------------------------------------- sync_wrapper
\* the entry of the registry for (fid, x) has been revived and not reset since
BackedOff(reg, fid, x) ==
  \E i \in DOMAIN reg : SameEntry(reg[i], fid, x) /\ reg[i].backoff # <<1, 1>>

\* sync_wrapper, lines 52-59: pop skip_cache, derive the cache key, register
\* a never-die function (which starts the Refresher) and look the entry up
\* outside the lock
Call(t, f, x, skip) ==
  /\ th[t].pc = "idle"
  /\ budget > 0
  /\ <<f, x, skip>> \in space
  /\ budget' = budget - 1
  /\ NEVER_DIE_REGISTRY' =
       IF never_die(f) THEN register_never_die_function(NEVER_DIE_REGISTRY, f, x, now)
       ELSE NEVER_DIE_REGISTRY
  /\ refresher' =
       IF never_die(f) /\ refresher.pc = "off" THEN [refresher EXCEPT !.pc = "sleep"]
       ELSE refresher
  /\ LET e == StorageGet(get_function_id(f), CreateCacheKey(x), skip)
         c == [IdleCaller EXCEPT !.fid = get_function_id(f), !.arg = x, !.skip = skip,
                                 !.n = th[t].n + 1,
                                 !.backed_off = BackedOff(NEVER_DIE_REGISTRY, f, x)]
         err == StorageGetError(get_function_id(f), CreateCacheKey(x), skip)
     IN th' = [th EXCEPT ![t] =
                 IF err # "" THEN [c EXCEPT !.exc = TRUE, !.err = err]
                 ELSE IF e # NoEntry
                 THEN [c EXCEPT !.result = e.result]
                 ELSE [c EXCEPT !.pc = "lock"]]
  /\ failures' = IF never_die(f) /\ ~\E i \in DOMAIN NEVER_DIE_REGISTRY :
                                        SameEntry(NEVER_DIE_REGISTRY[i], f, x)
                  THEN Append(failures, 0) ELSE failures
  /\ raised' = raised \ {<<f, CreateCacheKey(x)>>}
  /\ UNCHANGED <<now, CACHE, lockvars, call_count, sweeper, space, last, redisvars, SHADOW, skipped, extras>>

\* lock_context: SYNC_LOCKS[fid] of the outer defaultdict; a missing fid
\* calls the factory lambda, which is Python code and can be preempted
LockLookup(t) ==
  /\ th[t].pc = "lock"
  /\ ~IsRedis(th[t].fid)
  /\ th' = [th EXCEPT ![t] =
              IF SYNC_LOCKS[th[t].fid] # NoDict
              THEN [@ EXCEPT !.pc = "acquire", !.d = SYNC_LOCKS[th[t].fid]]
              ELSE [@ EXCEPT !.pc = "mkdict"]]
  /\ UNCHANGED <<now, CACHE, lockvars, call_count, sweeper, space, last, budget, redisvars, ndvars, SHADOW, skipped, raised, extras>>

\* defaultdict.__missing__: the factory's value is stored unconditionally
LockCreate(t) ==
  /\ th[t].pc = "mkdict"
  /\ dicts' = dicts + 1
  /\ SYNC_LOCKS' = [SYNC_LOCKS EXCEPT ![th[t].fid] = dicts + 1]
  /\ th' = [th EXCEPT ![t] = [@ EXCEPT !.pc = "acquire", !.d = dicts + 1]]
  /\ UNCHANGED <<now, CACHE, held, call_count, sweeper, space, last, budget, redisvars, ndvars, SHADOW, skipped, raised, extras>>

\* with lock_context(...): threading.Lock.__enter__ on inner[cache_key]
Acquire(t) ==
  /\ th[t].pc = "acquire"
  /\ LockOf(th[t]) \notin held
  /\ held' = held \cup {LockOf(th[t])}
  /\ th' = [th EXCEPT ![t] = [@ EXCEPT !.pc = "recheck"]]
  /\ UNCHANGED <<now, CACHE, SYNC_LOCKS, dicts, call_count, sweeper, space, last, budget, redisvars, ndvars, SHADOW, skipped, raised, extras>>

\* the function is entered: the execution is counted and its result, which
\* tells the function, the argument and the execution apart, is fixed
Enter(c) ==
  [c EXCEPT !.pc = "exec", !.executed = TRUE,
            !.val = <<c.fid, c.arg, Bump(call_count[c.fid])>>]

\* sync_wrapper, lines 62-65: the lookup under the lock; a miss enters the
\* wrapped function
Recheck(t) ==
  /\ th[t].pc = "recheck"
  /\ LET e == StorageGet(th[t].fid, CreateCacheKey(th[t].arg), th[t].skip)
         err == StorageGetError(th[t].fid, CreateCacheKey(th[t].arg), th[t].skip)
     IN IF err # ""
        THEN /\ th' = [th EXCEPT ![t] = [@ EXCEPT !.pc = "unlock", !.exc = TRUE,
                                                  !.err = err]]
             /\ UNCHANGED call_count
        ELSE IF e # NoEntry
        THEN /\ th' = [th EXCEPT ![t] = [@ EXCEPT !.pc = "unlock",
                                                  !.result = e.result]]
             /\ UNCHANGED call_count
        ELSE /\ call_count' = [call_count EXCEPT ![th[t].fid] = Bump(@)]
             /\ th' = [th EXCEPT ![t] = Enter(th[t])]
  /\ UNCHANGED <<now, CACHE, lockvars, sweeper, space, last, budget, redisvars, ndvars, SHADOW, skipped, raised, extras>>

\* a wrapper that stores with the ttl whether the function is never-die or not
StoredTTLAlways(fid) == TTL

\* the ttl sync_wrapper stores with: None if never_die else ttl
StoredTTL(fid) == IF never_die(fid) THEN NoTTL ELSE TTL

\* sync_wrapper, lines 65-67: the function returns and the result is
\* stored, unless backend.set raises
Return(t) ==
  /\ t \in Callers
  /\ th[t].pc = "exec"
  /\ LET fid == th[t].fid
         ck == CreateCacheKey(th[t].arg)
         err == IF IsRedis(fid) THEN RedisSetError(redis_config, fid, th[t].val, redis_up)
                ELSE ""
     IN IF err # ""
        THEN /\ UNCHANGED <<CACHE, REDIS, SHADOW>>
             /\ th' = [th EXCEPT ![t] = [@ EXCEPT !.pc = "unlock", !.exc = TRUE,
                                                  !.err = err]]
        ELSE /\ CACHE' = IF IsRedis(fid) THEN CACHE
                         ELSE MemorySet(CACHE, fid, ck, th[t].val, StoredTTL(fid), now)
             /\ REDIS' = IF IsRedis(fid)
                         THEN RedisSet(REDIS, fid, ck, th[t].val, StoredTTL(fid), now, redis_up)
                         ELSE REDIS
             /\ SHADOW' = MemorySet(SHADOW, fid, ck, th[t].val, StoredTTL(fid), now)
             /\ th' = [th EXCEPT ![t] = [@ EXCEPT !.pc = "unlock", !.result = th[t].val]]
  /\ skipped' = IF th[t].skip THEN skipped \cup {KeyOf(th[t])}
                                ELSE skipped \ {KeyOf(th[t])}
  /\ raised' = raised \ {KeyOf(th[t])}
  /\ UNCHANGED <<now, lockvars, call_count, sweeper, space, last, budget, REDIS_LOCKS, redis_up, redis_config, unreleased, ndvars, extras>>

\* a wrapper that stores an empty result when the function raises
RaiseCaching(t) ==
  /\ t \in Callers
  /\ th[t].pc = "exec"
  /\ CACHE' = MemorySet(CACHE, th[t].fid, CreateCacheKey(th[t].arg), NoResult, TTL, now)
  /\ th' = [th EXCEPT ![t] = [@ EXCEPT !.pc = "unlock", !.exc = TRUE]]
  /\ raised' = raised \cup {KeyOf(th[t])}
  /\ UNCHANGED <<now, lockvars, call_count, sweeper, space, last, budget, redisvars, ndvars, SHADOW, skipped, extras>>

\* sync_wrapper, line 65: the function raises (or the caller is interrupted)
Raise(t) ==
  /\ t \in Callers
  /\ th[t].pc = "exec"
  /\ th' = [th EXCEPT ![t] = [@ EXCEPT !.pc = "unlock", !.exc = TRUE, !.err = "Exception"]]
  /\ raised' = raised \cup {KeyOf(th[t])}
  /\ UNCHANGED <<now, CACHE, lockvars, call_count, sweeper, space, last, budget, redisvars, ndvars, SHADOW, skipped, extras>>

\* an exit that unlocks after a return only, not after an exception
ReleaseUnlessRaised(t) ==
  /\ th[t].pc = "unlock"
  /\ ~IsRedis(th[t].fid)
  /\ held' = IF th[t].exc THEN held ELSE held \ {LockOf(th[t])}
  /\ th' = [th EXCEPT ![t] = [@ EXCEPT !.pc = "idle", !.d = NoDict, !.val = NoResult]]
  /\ UNCHANGED <<now, CACHE, SYNC_LOCKS, dicts, call_count, sweeper, space, last, budget, redisvars, ndvars, SHADOW, skipped, raised, extras>>

\* an exit of the with statement that leaves the lock locked
ReleaseKeepingLock(t) ==
  /\ th[t].pc = "unlock"
  /\ ~IsRedis(th[t].fid)
  /\ th' = [th EXCEPT ![t] = [@ EXCEPT !.pc = "idle", !.d = NoDict, !.val = NoResult]]
  /\ UNCHANGED <<now, CACHE, lockvars, call_count, sweeper, space, last, budget, redisvars, ndvars, SHADOW, skipped, raised, extras>>

\* the with statement's exit: threading.Lock.__exit__; the worker's thread
\* ends with it
Release(t) ==
  /\ th[t].pc = "unlock"
  /\ ~IsRedis(th[t].fid)
  /\ held' = held \ {LockOf(th[t])}
  /\ th' = [th EXCEPT ![t] = [@ EXCEPT !.pc = "idle", !.d = NoDict, !.val = NoResult]]
  /\ UNCHANGED <<now, CACHE, SYNC_LOCKS, dicts, call_count, sweeper, space, last, budget, redisvars, ndvars, SHADOW, skipped, raised, extras>>

\* ----------------------------------------------------- RedisLockManager
\* the lock key a call holds: taken with SET NX PX lock_timeout under a
\* token of its own, dropped by the server at its deadline
RedisLock(t) ==
  [key |-> KeyOf(th[t]), token |-> <<t, th[t].n>>, acquired_at |-> now,
   deadline |-> now + redis_config.lock_timeout]

\* the lock key is still on the server at time tm
Live(l, tm) == tm < l.deadline

\* RedisLockManager.sync_lock (async_lock), lines 26-42: without the client
\* of the call style it raises RuntimeError; lock.acquire() waits while the
\* key is taken; a command that fails raises out of the wrapper, before the
\* try
RedisAcquire(t) ==
  /\ th[t].pc = "lock"
  /\ IsRedis(th[t].fid)
  /\ IF ~ClientGiven(redis_config, th[t].fid)
     THEN /\ REDIS_LOCKS' = REDIS_LOCKS
          /\ th' = [th EXCEPT ![t] = [@ EXCEPT !.pc = "idle", !.exc = TRUE,
                                               !.err = "RuntimeError"]]
     ELSE IF ~redis_up
     THEN /\ REDIS_LOCKS' = REDIS_LOCKS
          /\ th' = [th EXCEPT ![t] = [@ EXCEPT !.pc = "idle", !.exc = TRUE,
                                               !.err = "ConnectionError"]]
     ELSE /\ ~\E l \in REDIS_LOCKS : l.key = KeyOf(th[t]) /\ Live(l, now)
          /\ REDIS_LOCKS' = {l \in REDIS_LOCKS : l.key # KeyOf(th[t])} \cup {RedisLock(t)}
          /\ th' = [th EXCEPT ![t] = [@ EXCEPT !.pc = "recheck"]]
  /\ unreleased' = unreleased \cap REDIS_LOCKS'
  /\ UNCHANGED <<now, CACHE, lockvars, call_count, sweeper, space, last, budget, REDIS, redis_up, redis_config, ndvars, SHADOW, skipped, raised, extras>>

\* a release whose failure reaches the caller in place of the body's outcome
RedisReleaseRaising(t) ==
  /\ th[t].pc = "unlock"
  /\ IsRedis(th[t].fid)
  /\ LET mine == {l \in REDIS_LOCKS : l.key = KeyOf(th[t]) /\ l.token = <<t, th[t].n>>}
     IN IF redis_up
        THEN /\ REDIS_LOCKS' = REDIS_LOCKS \ mine
             /\ unreleased' = unreleased \ mine
        ELSE /\ REDIS_LOCKS' = REDIS_LOCKS
             /\ unreleased' = unreleased \cup mine
  /\ th' = [th EXCEPT ![t] =
              IF redis_up THEN [@ EXCEPT !.pc = "idle", !.val = NoResult]
              ELSE [@ EXCEPT !.pc = "idle", !.val = NoResult, !.result = NoResult,
                             !.exc = TRUE, !.err = "ConnectionError"]]
  /\ UNCHANGED <<now, CACHE, lockvars, call_count, sweeper, space, last, budget, REDIS, redis_up, redis_config, ndvars, SHADOW, skipped, raised, extras>>

\* RedisLockManager.sync_lock, lines 45-52: lock.release() deletes the key if
\* it still carries the caller's token; LockNotOwnedError and a command that
\* fails are both suppressed
RedisRelease(t) ==
  /\ th[t].pc = "unlock"
  /\ IsRedis(th[t].fid)
  /\ LET mine == {l \in REDIS_LOCKS : l.key = KeyOf(th[t]) /\ l.token = <<t, th[t].n>>}
     IN IF redis_up
        THEN /\ REDIS_LOCKS' = REDIS_LOCKS \ mine
             /\ unreleased' = unreleased \ mine
        ELSE /\ REDIS_LOCKS' = REDIS_LOCKS
             /\ unreleased' = unreleased \cup mine
  /\ th' = [th EXCEPT ![t] = [@ EXCEPT !.pc = "idle", !.val = NoResult]]
  /\ UNCHANGED <<now, CACHE, lockvars, call_count, sweeper, space, last, budget, REDIS, redis_up, redis_config, ndvars, SHADOW, skipped, raised, extras>>

\* the connection to the Redis server is lost, and is back
RedisDown ==
  /\ redis_up
  /\ redis_up' = FALSE
  /\ UNCHANGED <<now, CACHE, lockvars, call_count, th, sweeper, space, last, budget, REDIS, REDIS_LOCKS, unreleased, redis_config, ndvars, SHADOW, skipped, raised, extras>>

RedisUp ==
  /\ ~redis_up
  /\ redis_up' = TRUE
  /\ UNCHANGED <<now, CACHE, lockvars, call_count, th, sweeper, space, last, budget, REDIS, REDIS_LOCKS, unreleased, redis_config, ndvars, SHADOW, skipped, raised, extras>>

\* -------------------------------------------------------------- Refresher
\* the position in _NEVER_DIE_REGISTRY of the entry a thread works for
EntryOf(c) ==
  CHOOSE i \in DOMAIN NEVER_DIE_REGISTRY : SameEntry(NEVER_DIE_REGISTRY[i], c.fid, c.arg)

\* the Refresher's scan goes on to the next entry, or to sleep after the last
Advance(r) ==
  [pc |-> IF Len(r.snap) = 1 THEN "sleep" ELSE "scan", snap |-> Tail(r.snap)]

\* _refresh_never_die_caches, line 132: list(_NEVER_DIE_REGISTRY), a list of
\* references to the entries
RefreshScan ==
  /\ refresher.pc = "sleep"
  /\ NEVER_DIE_REGISTRY # <<>>
  /\ refresher' = [pc |-> "scan",
                   snap |-> [i \in 1..Len(NEVER_DIE_REGISTRY) |-> i]]
  /\ UNCHANGED <<now, CACHE, lockvars, call_count, th, sweeper, space, last, budget, redisvars, NEVER_DIE_REGISTRY, failures, SHADOW, skipped, raised, extras>>

\* line 133: if not entry.is_expired(): continue
RefreshCheck ==
  /\ refresher.pc = "scan"
  /\ refresher' =
       IF NeverDieIsExpired(NEVER_DIE_REGISTRY[Head(refresher.snap)], now)
       THEN [refresher EXCEPT !.pc = "spawn"]
       ELSE Advance(refresher)
  /\ UNCHANGED <<now, CACHE, lockvars, call_count, th, sweeper, space, last, budget, redisvars, NEVER_DIE_REGISTRY, failures, SHADOW, skipped, raised, extras>>

\* a Refresher that starts a thread whether one is alive or not
RefreshSpawnUnchecked ==
  /\ refresher.pc = "spawn"
  /\ refresher' = Advance(refresher)
  /\ LET e == NEVER_DIE_REGISTRY[Head(refresher.snap)]
     IN th' = [th EXCEPT ![Worker] =
                 [IdleCaller EXCEPT !.pc = "lock", !.fid = e.fid,
                                    !.arg = e.arg, !.n = Bump(th[Worker].n)]]
  /\ UNCHANGED <<now, CACHE, lockvars, call_count, sweeper, space, last, budget, redisvars, NEVER_DIE_REGISTRY, failures, SHADOW, skipped, raised, extras>>

\* a Refresher that schedules a coroutine on a loop that is closed
RefreshSpawnClosed ==
  /\ refresher.pc = "spawn"
  /\ refresher' = Advance(refresher)
  /\ LET e == NEVER_DIE_REGISTRY[Head(refresher.snap)]
     IN th' = IF th[Worker].pc # "idle" THEN th
              ELSE [th EXCEPT ![Worker] =
                      [IdleCaller EXCEPT !.pc = "lock", !.fid = e.fid,
                                         !.arg = e.arg, !.n = Bump(th[Worker].n)]]
  /\ UNCHANGED <<now, CACHE, lockvars, call_count, sweeper, space, last, budget, redisvars, NEVER_DIE_REGISTRY, failures, SHADOW, skipped, raised, extras>>

\* lines 136-157: unless a thread or a future for the entry is alive, start
\* a thread for a function, and schedule a coroutine on the caller's loop
\* unless that loop is closed (entry.loop.is_closed(), or the RuntimeError
\* of run_coroutine_threadsafe when the loop is closed in between)
RefreshSpawn ==
  /\ refresher.pc = "spawn"
  /\ refresher' = Advance(refresher)
  /\ LET e == NEVER_DIE_REGISTRY[Head(refresher.snap)]
     IN th' = IF th[Worker].pc # "idle" \/ (iscoroutinefunction(e.fid) /\ loop_closed)
              THEN th
              ELSE [th EXCEPT ![Worker] =
                      [IdleCaller EXCEPT !.pc = "lock", !.fid = e.fid,
                                         !.arg = e.arg, !.n = Bump(th[Worker].n)]]
  /\ UNCHANGED <<now, CACHE, lockvars, call_count, sweeper, space, last, budget, redisvars, NEVER_DIE_REGISTRY, failures, SHADOW, skipped, raised, extras>>

\* _run_sync_function_and_cache, lines 79-81: under the lock the function is
\* entered without a lookup
WorkerAcquire ==
  /\ th[Worker].pc = "acquire"
  /\ LockOf(th[Worker]) \notin held
  /\ held' = held \cup {LockOf(th[Worker])}
  /\ call_count' = [call_count EXCEPT ![th[Worker].fid] = Bump(@)]
  /\ th' = [th EXCEPT ![Worker] = Enter(th[Worker])]
  /\ UNCHANGED <<now, CACHE, SYNC_LOCKS, dicts, sweeper, space, last, budget, redisvars, ndvars, SHADOW, skipped, raised, extras>>

\* lines 81-83: the function returns; storage.set(..., None), entry.reset()
WorkerReturn ==
  /\ th[Worker].pc = "exec"
  /\ LET c == th[Worker]
     IN /\ CACHE' = MemorySet(CACHE, c.fid, CreateCacheKey(c.arg), c.val, NoTTL, now)
        /\ SHADOW' = MemorySet(SHADOW, c.fid, CreateCacheKey(c.arg), c.val, NoTTL, now)
        /\ NEVER_DIE_REGISTRY' =
             [NEVER_DIE_REGISTRY EXCEPT ![EntryOf(c)] = reset(@, now)]
        /\ failures' = [failures EXCEPT ![EntryOf(c)] = 0]
        /\ th' = [th EXCEPT ![Worker] = [c EXCEPT !.pc = "unlock", !.result = c.val]]
        /\ skipped' = skipped \ {KeyOf(c)}
  /\ UNCHANGED <<now, lockvars, call_count, sweeper, space, last, budget, redisvars, refresher, raised, extras>>

\* a refresh that drops the stored value when the function raises
WorkerRaiseDropping ==
  /\ th[Worker].pc = "exec"
  /\ CACHE' = DictDel(CACHE, KeyOf(th[Worker]))
  /\ NEVER_DIE_REGISTRY' =
       [NEVER_DIE_REGISTRY EXCEPT ![EntryOf(th[Worker])] = revive(@, now)]
  /\ failures' = [failures EXCEPT ![EntryOf(th[Worker])] = Bump(@)]
  /\ th' = [th EXCEPT ![Worker] = [@ EXCEPT !.pc = "unlock", !.exc = TRUE]]
  /\ UNCHANGED <<now, lockvars, call_count, sweeper, space, last, budget, redisvars, refresher, SHADOW, skipped, raised, extras>>

\* lines 84-85: the function raises; except BaseException: entry.revive()
WorkerRaise ==
  /\ th[Worker].pc = "exec"
  /\ NEVER_DIE_REGISTRY' =
       [NEVER_DIE_REGISTRY EXCEPT ![EntryOf(th[Worker])] = revive(@, now)]
  /\ failures' = [failures EXCEPT ![EntryOf(th[Worker])] = Bump(@)]
  /\ th' = [th EXCEPT ![Worker] = [@ EXCEPT !.pc = "unlock", !.exc = TRUE]]
  /\ UNCHANGED <<now, CACHE, lockvars, call_count, sweeper, space, last, budget, redisvars, refresher, SHADOW, skipped, raised, extras>>

\* ---------------------------------------------------------------- Sweeper
\* clear_expired_cached_items: list(cls._CACHE.items())
SweepStart ==
  /\ sweeper.pc = "sleep"
  /\ CACHE # <<>>
  /\ sweeper' = [pc |-> "scan", snap |-> CACHE]
  /\ UNCHANGED <<now, CACHE, lockvars, call_count, th, space, last, budget, redisvars, ndvars, SHADOW, skipped, raised, extras>>

\* if entry.is_expired(), on the entry object of the snapshot
SweepCheck ==
  /\ sweeper.pc = "scan"
  /\ IF EntryIsExpired(Head(sweeper.snap).entry, now)
     THEN sweeper' = [sweeper EXCEPT !.pc = "del"]
     ELSE sweeper' = [pc |-> IF Len(sweeper.snap) = 1 THEN "sleep" ELSE "scan",
                      snap |-> Tail(sweeper.snap)]
  /\ UNCHANGED <<now, CACHE, lockvars, call_count, th, space, last, budget, redisvars, ndvars, SHADOW, skipped, raised, extras>>

\* del cls._CACHE[key]; a KeyError ends the scan (contextlib.suppress)
SweepDel ==
  /\ sweeper.pc = "del"
  /\ IF HasKey(CACHE, Head(sweeper.snap).key)
     THEN /\ CACHE' = DictDel(CACHE, Head(sweeper.snap).key)
          /\ sweeper' = [pc |-> IF Len(sweeper.snap) = 1 THEN "sleep" ELSE "scan",
                         snap |-> Tail(sweeper.snap)]
     ELSE /\ CACHE' = CACHE
          /\ sweeper' = [pc |-> "sleep", snap |-> <<>>]
  /\ UNCHANGED <<now, lockvars, call_count, th, space, last, budget, redisvars, ndvars, SHADOW, skipped, raised, extras>>

\* time.monotonic() advances by a step of the clock, as far as the bound of
\* the specification
TickBy(step, limit) ==
  /\ now + step <= limit
  /\ now' = now + step
  /\ UNCHANGED <<CACHE, lockvars, call_count, th, sweeper, space, last, budget, redisvars, ndvars, SHADOW, skipped, raised, extras>>

Tick == TickBy(1, MaxTime)

\* ---------------------------------------------------------- specifications
\* functions decorated with @cache, their callers and the Sweeper
Next ==
  \/ \E t \in Callers, f \in Funcs, x \in Args, skip \in BOOLEAN : Call(t, f, x, skip)
  \/ \E t \in Threads : LockLookup(t)
  \/ \E t \in Threads : LockCreate(t)
  \/ \E t \in Callers : Acquire(t)
  \/ \E t \in Callers : Recheck(t)
  \/ \E t \in Callers : Return(t)
  \/ \E t \in Callers : Raise(t)
  \/ \E t \in Threads : Release(t)
  \/ SweepStart
  \/ SweepCheck
  \/ SweepDel
  \/ Tick

\* with a function decorated with @redis_cache and the Redis server
NextRedis ==
  \/ Next
  \/ \E t \in Callers : RedisAcquire(t)
  \/ \E t \in Callers : RedisRelease(t)
  \/ RedisDown
  \/ RedisUp

\* with a never-die function and the Refresher
NextNeverDie ==
  \/ Next
  \/ RefreshScan
  \/ RefreshCheck
  \/ RefreshSpawn
  \/ WorkerAcquire
  \/ WorkerReturn
  \/ WorkerRaise

Spec == Init /\ [][Next]_vars

SpecKeys == InitKeys /\ [][Next]_vars

SpecFuncs == InitFuncs /\ [][Next]_vars

SpecRedis == InitRedis /\ [][NextRedis]_vars

SpecNeverDie == InitNeverDie /\ [][NextNeverDie]_vars

TypeOK ==
  /\ now \in 0..MaxTime
  /\ budget \in 0..MaxCalls
  /\ redis_up \in BOOLEAN
  /\ \A t \in Threads : th[t].pc \in
       {"idle", "lock", "mkdict", "acquire", "recheck", "exec", "unlock"}
  /\ sweeper.pc \in {"sleep", "scan", "del"}
  /\ refresher.pc \in {"off", "sleep", "scan", "spawn"}

\* ------------------------------------------------------------------ claims
\* caller t makes a call in this step
MakesCall(t) == th'[t].n = th[t].n + 1

\* caller t has made a call and it has ended
Ended(t) == th[t].n > 0 /\ th[t].pc = "idle"

\* what the last set() for the key of caller record c wrote, if it is still
\* within its ttl at time t
Remembered(c, t) == MemoryGet(SHADOW, c.fid, CreateCacheKey(c.arg), FALSE, t)

\* the call of record c found its value in the Store and did not execute
IsHit(c, e) == c.pc = "idle" /\ ~c.executed /\ ~c.exc /\ c.result = e.result

\* C1: stampede bound. When every caller has made one call, all on the same
\* key and without skip_cache, starting from the empty Store, and no
\* execution raised and no ttl has run out, the function was executed by no
\* more than one of the calls and the calls that ended all returned one result.
C1_StampedeBound ==
  ( /\ \A t \in Callers : th[t].n <= 1 /\ ~th[t].skip /\ ~th[t].exc
    /\ now <= TTL )
  => \A t, u \in Callers :
       (t # u /\ th[t].n = 1 /\ th[u].n = 1 /\ KeyOf(th[t]) = KeyOf(th[u]))
       => /\ ~(th[t].executed /\ th[u].executed)
          /\ (Ended(t) => th[t].executed \/ th[u].executed)
          /\ (Ended(t) /\ Ended(u) => th[t].result = th[u].result)

\* C2: mutual exclusion. No two threads are inside the wrapped function for
\* the same (function id, cache key) at the same time.
C2_MutualExclusion ==
  \A t, u \in Threads :
    (t # u /\ th[t].pc = "exec" /\ th[u].pc = "exec") => KeyOf(th[t]) # KeyOf(th[u])

\* C3: idempotence of cache hits. A call without skip_cache made while the
\* value last stored for its arguments is within its ttl returns that value
\* and does not execute the function.
C3_Idempotence ==
  [][\A t \in Callers :
       (MakesCall(t) /\ ~th'[t].skip /\ Remembered(th'[t], now) # NoEntry)
       => IsHit(th'[t], Remembered(th'[t], now))]_vars

\* the entry the Store holds for the key of caller record c, expired or not
Stored(c) == DictGet(CACHE, KeyOf(c))

\* the entry e is within its ttl at time t, by cached_at and ttl alone
WithinTTL(e, t) == e.ttl = NoTTL \/ t <= e.cached_at + e.ttl

\* caller t leaves the lookup under the lock in this step
Rechecks(t) == th[t].pc = "recheck" /\ th'[t].pc # "recheck"

\* the entry last written for the key of caller record c, swept or not
LastStored(c) == DictGet(SHADOW, KeyOf(c))

\* C4: expiry boundary. Every entry with a ttl has expires_at = cached_at +
\* ttl, and a call without skip_cache made when now <= cached_at + ttl of
\* the entry last stored for its arguments returns that entry's value
\* without executing, while one made when now > cached_at + ttl goes on to
\* recompute.
C4_ExpiryBoundary ==
  /\ [](\A i \in DOMAIN CACHE :
          CACHE[i].entry.ttl # NoTTL
          => CACHE[i].entry.expires_at = CACHE[i].entry.cached_at + CACHE[i].entry.ttl)
  /\ [][\A t \in Callers :
          (MakesCall(t) /\ ~th'[t].skip /\ LastStored(th'[t]) # NoEntry)
          => IF WithinTTL(LastStored(th'[t]), now)
             THEN IsHit(th'[t], LastStored(th'[t]))
             ELSE th'[t].pc = "lock"]_vars

\* C5: skip_cache. A call with skip_cache never returns from the Store but
\* always enters the function; its result is written under the key a call
\* without the flag uses; and a following call without the flag, made while
\* that value is within its ttl, returns it without executing.
C5_SkipCache ==
  [][\A t \in Callers :
       /\ (MakesCall(t) /\ th'[t].skip) => th'[t].pc = "lock"
       /\ (Rechecks(t) /\ th[t].skip) => th'[t].pc = "exec"
       /\ (th[t].pc = "exec" /\ th[t].skip /\ th'[t].pc = "unlock" /\ ~th'[t].exc)
          => DictGet(CACHE', <<th[t].fid, CreateCacheKey(th[t].arg)>>).result
               = th'[t].result
       /\ (MakesCall(t) /\ ~th'[t].skip /\ KeyOf(th'[t]) \in skipped
              /\ Remembered(th'[t], now) # NoEntry)
          => IsHit(th'[t], Remembered(th'[t], now))]_vars

\* thread t is inside the critical section of sync_wrapper
InCritical(t) == th[t].pc \in {"recheck", "exec", "unlock"}

\* the in-process lock l has its holder inside the critical section
HolderInside(l) ==
  \E t \in Threads : InCritical(t) /\ ~IsRedis(th[t].fid) /\ LockOf(th[t]) = l

\* the Redis lock l has the call that took it inside the critical section
OwnerInside(l) ==
  \E t \in Callers : /\ InCritical(t) /\ IsRedis(th[t].fid)
                     /\ l.key = KeyOf(th[t]) /\ l.token = <<t, th[t].n>>

\* C6 as stated: the keyed lock is released on every exit path. No lock, of
\* the in-process registry or of the Redis server, is held while no caller
\* is inside its critical section.
C6_NoLockWithoutHolder ==
  /\ \A l \in held : HolderInside(l)
  /\ \A l \in REDIS_LOCKS : Live(l, now) => OwnerInside(l)

\* C6 as amended: ... the in-process lock is free again on every exit path;
\* the Redis lock is free again unless its release command failed, and then
\* it is free lock_timeout after it was taken.
C6_LockReleased ==
  /\ \A l \in held : HolderInside(l)
  /\ \A l \in REDIS_LOCKS :
       /\ l.deadline = l.acquired_at + LockTimeout
       /\ Live(l, now) => OwnerInside(l) \/ l \in unreleased

\* C6 witness: a call of f and a call of r have both raised and ended; the
\* lock of f is free and the lock of r, whose release failed, is not
C6_Witness ==
  \E t, u \in Callers :
    /\ Ended(t) /\ th[t].fid = "f" /\ th[t].exc /\ held = {}
    /\ Ended(u) /\ th[u].fid = "r" /\ th[u].exc /\ th[u].executed
    /\ \E l \in unreleased : Live(l, now) /\ l.key = KeyOf(th[u])

\* caller t's execution of the function ends by raising in this step
Raises(t) == th[t].pc = "exec" /\ th'[t].exc

\* caller t's call, which raised, ends in this step
EndsRaised(t) == th[t].pc = "unlock" /\ th[t].exc /\ th'[t].pc = "idle"

\* the Store holds no unexpired entry for the key of caller record c
NothingFresh(c) == Stored(c) = NoEntry \/ ~WithinTTL(Stored(c), now)

\* C7 as stated: when the function raises, the Store is left unchanged, the
\* caller gets the exception and no value, and the next call with the same
\* arguments executes the function again.
C7_NextCallExecutes ==
  [][\A t \in Callers :
       /\ Raises(t) => CACHE' = CACHE
       /\ EndsRaised(t) => th'[t].exc /\ th'[t].result = NoResult
       /\ (MakesCall(t) /\ KeyOf(th'[t]) \in raised) => th'[t].pc = "lock"]_vars

\* C7 as amended: ... and the next call with the same arguments executes the
\* function again unless it finds an unexpired entry for them in the Store.
C7_RaiseCachesNothing ==
  [][\A t \in Callers :
       /\ Raises(t) => CACHE' = CACHE
       /\ EndsRaised(t) => th'[t].exc /\ th'[t].result = NoResult
       /\ (MakesCall(t) /\ KeyOf(th'[t]) \in raised /\ NothingFresh(th'[t]))
          => th'[t].pc = "lock"
       /\ (Rechecks(t) /\ NothingFresh(th[t])) => th'[t].pc = "exec"]_vars

\* C7 witness: after an execution raised and left the Store empty, the next
\* call for the key is executing the function again
C7_Witness ==
  \E t, u \in Callers :
    /\ t # u /\ Ended(t) /\ th[t].exc /\ CACHE = <<>>
    /\ th[u].pc = "exec" /\ KeyOf(th[u]) = KeyOf(th[t]) /\ ~th[u].skip
    /\ call_count[th[u].fid] = 2

\* the keys of the Store
Keys == Funcs \X {CreateCacheKey(x) : x \in Args}

\* C8: argument sensitivity. A call never returns a result computed for
\* another argument, and storing a result leaves the entries of all other
\* keys as they were.
C8_ArgumentSensitivity ==
  /\ [](\A t \in Callers : th[t].result # NoResult => th[t].result[2] = th[t].arg)
  /\ [][\A t \in Callers : \A k \in Keys :
          (th[t].pc = "exec" /\ th'[t].pc = "unlock" /\ k # KeyOf(th[t]))
          => DictGet(CACHE', k) = DictGet(CACHE, k)]_vars

\* C9: two functions called with the same arguments never share an entry.
\* A call returns a result of its own function, and a function's first
\* call is a miss whatever the other function has stored.
C9_FunctionsSeparate ==
  /\ [](\A t \in Callers : th[t].result # NoResult => th[t].result[1] = th[t].fid)
  /\ [][\A t \in Callers :
          (MakesCall(t) /\ call_count[th'[t].fid] = 0) => th'[t].pc = "lock"]_vars

\* C9 witness: both functions hold an entry under the same cache key and a
\* call of each has returned, the call of g from the Store
C9_Witness ==
  /\ DictGet(CACHE, <<"f", CreateCacheKey(5)>>) # NoEntry
  /\ DictGet(CACHE, <<"g", CreateCacheKey(5)>>) # NoEntry
  /\ \E t, u \in Callers :
       /\ Ended(t) /\ th[t].fid = "f" /\ th[t].result[1] = "f"
       /\ Ended(u) /\ th[u].fid = "g" /\ ~th[u].executed /\ th[u].result[1] = "g"

\* the keys of the never-die functions
NeverDieKeys == {k \in Keys : never_die(k[1])}

\* the worker's execution of the function ends by raising in this step
RefreshFails == th[Worker].pc = "exec" /\ th'[Worker].exc

\* C10: a never-die refresh that fails is caught and turned into a backoff
\* step. The failing step leaves the Store, the Refresher's loop and every
\* caller as they were and revives the entry of the registry with a longer
\* backoff (or the longest); the value last stored for a never-die key stays
\* in the Store; and every later call without skip_cache returns it without
\* executing.
C10_RefreshFailure ==
  /\ [](\A k \in NeverDieKeys : DictGet(CACHE, k) = DictGet(SHADOW, k))
  /\ [][RefreshFails =>
          /\ CACHE' = CACHE
          /\ refresher' = refresher
          /\ \A t \in Callers : th'[t] = th[t]
          /\ th'[Worker].pc = "unlock"
          /\ LET i == EntryOf(th[Worker])
                 b == NEVER_DIE_REGISTRY'[i].backoff
             IN /\ \/ Greater(b, NEVER_DIE_REGISTRY[i].backoff)
                   \/ b = <<MAX_BACKOFF, 1>>
                /\ NEVER_DIE_REGISTRY'[i].expires_at
                     = <<now * b[2] + TTL * b[1], b[2]>>]_vars
  /\ [][\A t \in Callers :
          (MakesCall(t) /\ never_die(th'[t].fid) /\ ~th'[t].skip
             /\ LastStored(th'[t]) # NoEntry)
          => IsHit(th'[t], LastStored(th'[t]))]_vars

\* C10 witness: a refresh has failed and its thread has ended, the value
\* stored before it is still in the Store, and a call made after the
\* failure has returned that value without executing
C10_Witness ==
  \E t \in Callers :
    /\ th[Worker].pc = "idle" /\ th[Worker].exc /\ held = {}
    /\ Ended(t) /\ th[t].backed_off /\ ~th[t].executed
    /\ Stored(th[t]) # NoEntry /\ th[t].result = Stored(th[t]).result

\* ------------------------------------------------------ never-die backoff
\* a never-die function h whose first call, h(5) at time 0, has returned,
\* and its Refresher over a time long enough for the backoff to reach its
\* ceiling, read on a clock of a coarser step
MaxBackoffTime == 60
BackoffStep == 3

BackoffSpace == {<<"h", 5, FALSE>>}

InitBackoff ==
  /\ now = 0
  /\ CACHE = MemorySet(<<>>, "h", CreateCacheKey(5), <<"h", 5, 1>>, NoTTL, 0)
  /\ SHADOW = CACHE
  /\ SYNC_LOCKS = [f \in Funcs |-> IF f = "h" THEN 1 ELSE NoDict]
  /\ held = {}
  /\ dicts = 1
  /\ call_count = [f \in Funcs |-> IF f = "h" THEN 1 ELSE 0]
  /\ th = [t \in Threads |->
             IF t = 1
             THEN [IdleCaller EXCEPT !.fid = "h", !.arg = 5, !.n = 1,
                                     !.result = <<"h", 5, 1>>, !.executed = TRUE]
             ELSE IdleCaller]
  /\ sweeper = [pc |-> "sleep", snap |-> <<>>]
  /\ REDIS = <<>>
  /\ REDIS_LOCKS = {}
  /\ redis_up = TRUE
  /\ redis_config = DefaultConfig
  /\ NEVER_DIE_REGISTRY = register_never_die_function(<<>>, "h", 5, 0)
  /\ failures = <<0>>
  /\ frame = NoFrame
  /\ loops = NoLoops
  /\ native = NoNative
  /\ NEVER_DIE_CACHE_THREADS = <<>>
  /\ refresh_threads = NoThreads
  /\ loop_closed = FALSE
  /\ refresher = [pc |-> "sleep", snap |-> <<>>]
  /\ skipped = {}
  /\ raised = {}
  /\ unreleased = {}
  /\ last = NoCall
  /\ budget = 0
  /\ space = BackoffSpace

NextBackoff ==
  \/ LockLookup(Worker)
  \/ Release(Worker)
  \/ RefreshScan
  \/ RefreshCheck
  \/ RefreshSpawn
  \/ WorkerAcquire
  \/ WorkerReturn
  \/ WorkerRaise
  \/ TickBy(BackoffStep, MaxBackoffTime)

SpecBackoff == InitBackoff /\ [][NextBackoff]_vars

\* min(1.25^k, 10) as a fraction 5^j / 4^j or 10 / 1: once a power of 1.25
\* is more than 10, so is every higher one
RECURSIVE CappedPow125(_)
CappedPow125(k) ==
  IF k = 0 THEN <<1, 1>>
  ELSE LET p == CappedPow125(k - 1)
       IN IF p = <<10, 1>> \/ 5 * p[1] > 10 * (4 * p[2]) THEN <<10, 1>>
          ELSE <<5 * p[1], 4 * p[2]>>

\* p <= q for fractions of which one denominator divides the other
Leq(p, q) ==
  IF p[2] <= q[2] THEN p[1] * (q[2] \div p[2]) <= q[1]
  ELSE p[1] <= q[1] * (p[2] \div q[2])

\* the delay from t to the time at which entry e is next due
Delay(e, t) == <<e.expires_at[1] - t * e.expires_at[2], e.expires_at[2]>>

\* the step in which a refresh ends, by an exception or by a return
RefreshFailed == th[Worker].pc = "exec" /\ th'[Worker].pc = "unlock" /\ th'[Worker].exc
RefreshSucceeded == th[Worker].pc = "exec" /\ th'[Worker].pc = "unlock" /\ ~th'[Worker].exc

\* C11: the backoff factor of every entry of the registry stays within
\* [1, 10]; the k-th refresh failure in a row sets the delay to the next due
\* time to TTL * min(1.25^k, 10), which is no less than the delay before it
\* and at most TTL * 10; the next refresh that succeeds sets the delay back
\* to TTL * 1
C11_Backoff ==
  /\ \A i \in DOMAIN NEVER_DIE_REGISTRY :
       /\ Leq(<<1, 1>>, NEVER_DIE_REGISTRY[i].backoff)
       /\ Leq(NEVER_DIE_REGISTRY[i].backoff, <<10, 1>>)
  /\ [][/\ RefreshFailed =>
             LET i == EntryOf(th[Worker])
                 e == NEVER_DIE_REGISTRY[i]
                 k == failures'[i]
             IN /\ k = failures[i] + 1
                /\ Delay(e', now') = <<TTL * CappedPow125(k)[1], CappedPow125(k)[2]>>
                /\ Leq(<<TTL * e.backoff[1], e.backoff[2]>>, Delay(e', now'))
                /\ Leq(Delay(e', now'), <<TTL * 10, 1>>)
        /\ RefreshSucceeded =>
             LET i == EntryOf(th[Worker])
             IN /\ failures'[i] = 0
                /\ NEVER_DIE_REGISTRY'[i].backoff = <<1, 1>>
                /\ Delay(NEVER_DIE_REGISTRY'[i], now') = <<TTL, 1>>]_vars

\* eleven refreshes in a row have failed and the backoff is at its ceiling,
\* 1.25^11 being more than 10
C11_Witness ==
  \E i \in DOMAIN NEVER_DIE_REGISTRY :
    /\ failures[i] = 11
    /\ NEVER_DIE_REGISTRY[i].backoff = <<MAX_BACKOFF, 1>>
    /\ Delay(NEVER_DIE_REGISTRY[i], now) = <<TTL * 10, 1>>

\* --------------------------------------------------- never-die keep-alive
\* a time kept in the state, seen one tick later from a present that stays
\* where it is: one tick further back, unless it has passed already, which
\* it then has for ever
AgoFraction(ts) ==
  IF Greater(<<now, 1>>, ts) THEN ts ELSE <<ts[1] - ts[2], ts[2]>>

Ago(ts) == IF ts < now THEN ts ELSE ts - 1

AgoEntries(cache) ==
  [i \in DOMAIN cache |->
     [cache[i] EXCEPT !.entry =
        [@ EXCEPT !.cached_at = Ago(@),
                  !.expires_at = IF cache[i].entry.ttl = NoTTL THEN @ ELSE Ago(@)]]]

\* time.monotonic() advances by one tick in a process that runs for ever;
\* the Redis server is not used
Elapse ==
  /\ NEVER_DIE_REGISTRY' =
       [i \in DOMAIN NEVER_DIE_REGISTRY |->
          [NEVER_DIE_REGISTRY[i] EXCEPT !.expires_at = AgoFraction(@)]]
  /\ CACHE' = AgoEntries(CACHE)
  /\ SHADOW' = AgoEntries(SHADOW)
  /\ UNCHANGED <<now, lockvars, call_count, th, sweeper, space, last, budget, redisvars, refresher, failures, skipped, raised, extras>>

KeepAliveSpace == {<<"h", 5, FALSE>>, <<"k", 5, FALSE>>}

\* two never-die functions h and k of a process that has run for long: the
\* calls h(5) and k(5) have registered them, and both have just been
\* refreshed
InitKeepAlive ==
  /\ now = 0
  /\ CACHE = MemorySet(MemorySet(<<>>, "h", CreateCacheKey(5), <<"h", 5, MaxCount>>, NoTTL, 0),
                       "k", CreateCacheKey(5), <<"k", 5, MaxCount>>, NoTTL, 0)
  /\ SHADOW = CACHE
  /\ SYNC_LOCKS = [f \in Funcs |-> IF f = "h" THEN 1 ELSE IF f = "k" THEN 2 ELSE NoDict]
  /\ held = {}
  /\ dicts = 2
  /\ call_count = [f \in Funcs |-> IF never_die(f) THEN MaxCount ELSE 0]
  /\ th = [t \in Threads |->
             IF t = Worker THEN [IdleCaller EXCEPT !.n = MaxCount] ELSE IdleCaller]
  /\ sweeper = [pc |-> "sleep", snap |-> <<>>]
  /\ REDIS = <<>>
  /\ REDIS_LOCKS = {}
  /\ redis_up = TRUE
  /\ redis_config = DefaultConfig
  /\ NEVER_DIE_REGISTRY =
       register_never_die_function(register_never_die_function(<<>>, "h", 5, 0), "k", 5, 0)
  /\ failures = <<0, 0>>
  /\ frame = NoFrame
  /\ loops = NoLoops
  /\ native = NoNative
  /\ NEVER_DIE_CACHE_THREADS = <<>>
  /\ refresh_threads = NoThreads
  /\ loop_closed = FALSE
  /\ refresher = [pc |-> "sleep", snap |-> <<>>]
  /\ skipped = {}
  /\ raised = {}
  /\ unreleased = {}
  /\ last = NoCall
  /\ budget = 0
  /\ space = KeepAliveSpace

\* a step of the Refresher thread, and of the thread it starts for an entry,
\* in which the function returns
RefresherStep == RefreshScan \/ RefreshCheck \/ RefreshSpawn

WorkerStep ==
  \/ LockLookup(Worker)
  \/ WorkerAcquire
  \/ WorkerReturn
  \/ Release(Worker)

NextKeepAlive == RefresherStep \/ WorkerStep \/ Elapse

\* the threads are scheduled again and again, the wrapped function ends and
\* time passes
SpecKeepAlive ==
  /\ InitKeepAlive
  /\ [][NextKeepAlive]_vars
  /\ WF_vars(RefresherStep)
  /\ WF_vars(WorkerStep)
  /\ WF_vars(Elapse)

\* the entry of never-die function f is past its next due time
Due(f) ==
  \E i \in DOMAIN NEVER_DIE_REGISTRY :
    NEVER_DIE_REGISTRY[i].fid = f /\ NeverDieIsExpired(NEVER_DIE_REGISTRY[i], now)

\* the thread started by the Refresher is in function f
Refreshing(f) == th[Worker].pc = "exec" /\ th[Worker].fid = f

\* C12: whenever the entry of a registered never-die function is past its
\* next due time, the Refresher eventually starts a refresh that executes
\* the function, no caller calling
C12_KeepAlive == \A f \in {"h", "k"} : Due(f) ~> Refreshing(f)

\* ------------------------------------------------------------ Redis lease
\* caller t is in the body of the with statement of a Redis-cached function
InBody(t) == IsRedis(th[t].fid) /\ th[t].pc \in {"recheck", "exec"}

\* the lock key that caller t took is still on the server
LeaseLive(t) ==
  \E l \in REDIS_LOCKS : l.token = <<t, th[t].n>> /\ Live(l, now)

\* C13: while a caller is in the critical section of a Redis-cached
\* function, however long it runs, the lock key it took has time to live
C13_LeaseHeld == \A t \in Callers : InBody(t) => LeaseLive(t)

\* C14: a second caller for the same key of a Redis-cached function is not
\* in the critical section before the first has left it, however long the
\* first runs, so the function is not executed twice at a time
C14_SlowBody ==
  \A s, t \in Callers :
    (s # t /\ InBody(s) /\ InBody(t)) => KeyOf(th[s]) # KeyOf(th[t])

\* ------------------------------------------------- configuration surface
MaxConfigCalls == 3

\* what the configuration surface leaves alone
cachevars == <<now, CACHE, lockvars, call_count, th, sweeper, space, budget, REDIS, REDIS_LOCKS, redis_up, unreleased, ndvars, SHADOW, skipped, raised, extras>>

OnErrors == {"silent", "raise", "invalid"}
KeyPrefixes == {"cache", "test2"}
LockTimeouts == {LockTimeout, LockTimeout + 1}

\* a setup that replaces the configuration that is set
setup_overwriting(cfg, sync_client, async_client, key_prefix, lock_timeout, on_error) ==
  IF ~sync_client /\ ~async_client THEN [config |-> cfg, out |-> "ValueError"]
  ELSE IF on_error \notin {"silent", "raise"} THEN [config |-> cfg, out |-> "ValueError"]
  ELSE [config |-> RedisConfig(sync_client, async_client, key_prefix, lock_timeout, on_error),
        out |-> "ok"]

\* setup_redis_config: the configuration it leaves and how it ends
setup_redis_config(cfg, sync_client, async_client, key_prefix, lock_timeout, on_error) ==
  IF cfg.set THEN [config |-> cfg, out |-> "RuntimeError"]
  ELSE IF ~sync_client /\ ~async_client THEN [config |-> cfg, out |-> "ValueError"]
  ELSE IF on_error \notin {"silent", "raise"} THEN [config |-> cfg, out |-> "ValueError"]
  ELSE [config |-> RedisConfig(sync_client, async_client, key_prefix, lock_timeout, on_error),
        out |-> "ok"]

\* get_redis_config: how it ends
get_redis_config(cfg) == IF ~cfg.set THEN "RuntimeError" ELSE "ok"

Setup(sync_client, async_client, key_prefix, lock_timeout, on_error) ==
  /\ last.n < MaxConfigCalls
  /\ LET r == setup_redis_config(redis_config, sync_client, async_client,
                                 key_prefix, lock_timeout, on_error)
     IN /\ redis_config' = r.config
        /\ last' = [op |-> "setup", out |-> r.out, n |-> last.n + 1,
                    args |-> [sync_client |-> sync_client, async_client |-> async_client,
                              on_error |-> on_error]]
  /\ UNCHANGED cachevars

GetConfig ==
  /\ last.n < MaxConfigCalls
  /\ last' = [op |-> "get", out |-> get_redis_config(redis_config), n |-> last.n + 1,
              args |-> [config |-> redis_config]]
  /\ UNCHANGED <<cachevars, redis_config>>

\* reset_redis_config
ResetConfig ==
  /\ last.n < MaxConfigCalls
  /\ redis_config' = NoConfig
  /\ last' = [op |-> "reset", out |-> "ok", n |-> last.n + 1, args |-> <<>>]
  /\ UNCHANGED cachevars

\* create_cache_decorator, which cache() comes to: how the construction of
\* the decorator ends; a key function is known by whether it was given
create_cache_decorator(cache_key_func, ignore_fields) ==
  IF cache_key_func /\ ignore_fields # <<>> THEN "ValueError" ELSE "decorator"

\* redis_cache: how the construction of the decorator ends
redis_cache(cache_key_func, ignore_fields) ==
  IF cache_key_func /\ ignore_fields # <<>> THEN "Exception" ELSE "decorator"

IgnoreFields == {<<>>, <<"b">>, <<"a", "b">>}

\* @cache(...) and @redis_cache(...) are evaluated
Decorate(backend, never_die_arg, cache_key_func, ignore_fields) ==
  /\ last.n < MaxConfigCalls
  /\ last' = [op |-> backend,
              out |-> IF backend = "redis_cache"
                      THEN redis_cache(cache_key_func, ignore_fields)
                      ELSE create_cache_decorator(cache_key_func, ignore_fields),
              n |-> last.n + 1,
              args |-> [never_die |-> never_die_arg, cache_key_func |-> cache_key_func,
                        ignore_fields |-> ignore_fields]]
  /\ UNCHANGED <<cachevars, redis_config>>

InitConfig == Start /\ budget = 0 /\ space = {} /\ redis_config = NoConfig

NextConfig ==
  \/ \E s, a \in BOOLEAN, p \in KeyPrefixes, lt \in LockTimeouts, oe \in OnErrors :
       Setup(s, a, p, lt, oe)
  \/ GetConfig
  \/ ResetConfig
  \/ \E b \in {"cache", "redis_cache"}, nd, kf \in BOOLEAN, ig \in IgnoreFields :
       Decorate(b, nd, kf, ig)

SpecConfig == InitConfig /\ [][NextConfig]_vars

\* the last call was the construction of a decorator with both a key
\* function and fields to ignore
BothGiven ==
  /\ last.op \in {"cache", "redis_cache"}
  /\ last.args.cache_key_func
  /\ last.args.ignore_fields # <<>>

\* C15: the construction of a decorator, in-memory or Redis, with both
\* cache_key_func and ignore_fields ends with a ValueError and returns no
\* decorator, so that no function is wrapped and none is called
C15_BothGivenFails ==
  BothGiven => last.out = "ValueError" /\ \A f \in Funcs : call_count[f] = 0

\* a call of the configuration surface is made in this step
ConfigCall(op) == last'.n = last.n + 1 /\ last'.op = op

\* C16: setup while a configuration is set raises RuntimeError and leaves
\* it as it is; setup with no client or with an invalid on_error while none
\* is set raises ValueError and leaves none set; any other setup sets the
\* configuration it was given, so setup succeeds only when none is set, at
\* the start or after a reset; get raises RuntimeError exactly when none is
\* set; reset leaves none set
C16_SetOnce ==
  [][/\ ConfigCall("setup") =>
          IF redis_config.set
          THEN last'.out = "RuntimeError" /\ redis_config' = redis_config
          ELSE IF (~last'.args.sync_client /\ ~last'.args.async_client)
                  \/ last'.args.on_error \notin {"silent", "raise"}
          THEN last'.out = "ValueError" /\ redis_config' = NoConfig
          ELSE /\ last'.out = "ok"
               /\ redis_config'.set
               /\ redis_config'.sync_client = last'.args.sync_client
               /\ redis_config'.async_client = last'.args.async_client
               /\ redis_config'.on_error = last'.args.on_error
     /\ ConfigCall("get") =>
          /\ (last'.out = "RuntimeError") = ~redis_config.set
          /\ redis_config' = redis_config
     /\ ConfigCall("reset") => redis_config' = NoConfig]_vars

\* a setup has been refused because a configuration was set
C16_Witness ==
  /\ last.op = "setup" /\ last.out = "RuntimeError"
  /\ redis_config.set

\* ------------------------------------------------ the on_error policy
\* calls of the Redis functions: r with and without skip_cache, u and w,
\* whose results cannot be pickled, and the coroutine function a
OnErrorSpace ==
  {<<"r", 5, FALSE>>, <<"r", 5, TRUE>>, <<"u", 5, FALSE>>, <<"w", 5, FALSE>>,
   <<"a", 5, FALSE>>}

\* the configurations setup_redis_config accepts: one client or both, and
\* either policy
OnErrorConfigs ==
  {RedisConfig(s, a, "cache", LockTimeout, oe) :
     s \in BOOLEAN, a \in BOOLEAN, oe \in {"silent", "raise"}}
  \ {RedisConfig(FALSE, FALSE, "cache", LockTimeout, oe) : oe \in {"silent", "raise"}}

\* something else overwrites the bytes under a cache key by bytes that are
\* no pickle
RedisGarble ==
  /\ redis_up
  /\ \E i \in DOMAIN REDIS :
       /\ REDIS[i].entry # Garbage
       /\ REDIS' = DictSet(REDIS, REDIS[i].key, Garbage)
  /\ UNCHANGED <<now, CACHE, lockvars, call_count, th, sweeper, space, last, budget, REDIS_LOCKS, redis_up, unreleased, redis_config, ndvars, SHADOW, skipped, raised, extras>>

InitOnError ==
  /\ Start
  /\ budget = MaxCalls - 1
  /\ space = OnErrorSpace
  /\ redis_config \in OnErrorConfigs

NextOnError ==
  \/ \E t \in Callers, f \in Funcs, x \in Args, skip \in BOOLEAN : Call(t, f, x, skip)
  \/ \E t \in Callers : RedisAcquire(t)
  \/ \E t \in Callers : Recheck(t)
  \/ \E t \in Callers : Return(t)
  \/ \E t \in Callers : Raise(t)
  \/ \E t \in Callers : RedisRelease(t)
  \/ RedisDown
  \/ RedisUp
  \/ RedisGarble
  \/ TickBy(1, LockTimeout)

SpecOnError == InitOnError /\ [][NextOnError]_vars

\* the configuration lacks the client for the call style of caller record c
Mismatch(c) ==
  IF c.fid = "a" THEN ~redis_config.async_client ELSE ~redis_config.sync_client

\* C17: a call of a Redis function without the matching client (a blocking
\* call with only the async client configured, or a coroutine call with only
\* the sync client) fails with RuntimeError under either on_error policy,
\* with or without skip_cache, whether the server is reachable or not, and
\* the function is not executed.
C17_MissingClient ==
  \A t \in Callers :
    (th[t].n > 0 /\ IsRedis(th[t].fid) /\ Mismatch(th[t]))
    => /\ th[t].pc \in {"idle", "lock"}
       /\ ~th[t].executed
       /\ th[t].result = NoResult
       /\ call_count[th[t].fid] = 0
       /\ Ended(t) => th[t].exc /\ th[t].err = "RuntimeError"

\* C17 witness: with only the async client configured and on_error silent, a
\* call of r with skip_cache has failed with RuntimeError and a call of the
\* coroutine function a has returned its result
C17_Witness ==
  /\ redis_config.on_error = "silent"
  /\ \E t, s \in Callers :
       /\ Ended(t) /\ th[t].fid = "r" /\ th[t].skip /\ th[t].err = "RuntimeError"
       /\ Ended(s) /\ th[s].fid = "a" /\ th[s].result # NoResult

\* caller t looks its key up in this step, outside the lock or under it
Looks(t) ==
  /\ IsRedis(th'[t].fid) /\ ~th'[t].skip /\ ~Mismatch(th'[t])
  /\ MakesCall(t) \/ (th[t].pc = "recheck" /\ th'[t].pc # "recheck")

\* the read of caller t's key fails: the server is unreachable or the bytes
\* under the key cannot be loaded
FailedRead(t) ==
  \/ ~redis_up
  \/ /\ HasKey(REDIS, KeyOf(th'[t]))
     /\ DictGet(REDIS, KeyOf(th'[t])) = Garbage

\* caller t's execution returns in this step and the result, which can be
\* pickled, is handed to the store
Stores(t) ==
  /\ th[t].pc = "exec" /\ th'[t].pc = "unlock" /\ th'[t].err # "Exception"
  /\ IsRedis(th[t].fid) /\ Picklable(th[t].val)

\* C18: the on_error policy. With "silent" a read that fails (the command,
\* or loading the bytes) is a miss, so the call goes on to the lock or to the
\* execution, and a write that fails is dropped while the call returns the
\* computed result; with "raise" the failure reaches the caller: the call
\* raises, returns no result and, when the read failed, does not execute.
C18_OnErrorPolicy ==
  [][\A t \in Callers :
       /\ (Looks(t) /\ FailedRead(t)) =>
            IF redis_config.on_error = "silent"
            THEN /\ ~th'[t].exc /\ th'[t].result = NoResult
                 /\ th'[t].pc = IF MakesCall(t) THEN "lock" ELSE "exec"
            ELSE /\ th'[t].exc /\ th'[t].result = NoResult
                 /\ th'[t].err \in {"ConnectionError", "UnpicklingError"}
                 /\ th'[t].pc = IF MakesCall(t) THEN "idle" ELSE "unlock"
                 /\ ~th'[t].executed
       /\ (Stores(t) /\ ~redis_up) =>
            /\ REDIS' = REDIS
            /\ IF redis_config.on_error = "silent"
               THEN ~th'[t].exc /\ th'[t].result = th[t].val
               ELSE /\ th'[t].exc /\ th'[t].err = "ConnectionError"
                    /\ th'[t].result = NoResult]_vars

\* C18 witness: with on_error silent and no ttl run out, two calls of r
\* without skip_cache have both executed and returned their results, the
\* second after the first had returned: the bytes the first stored were
\* overwritten, the second read them as a miss, and its own write, with the
\* server unreachable, was dropped and left them in place
C18_Witness ==
  /\ redis_config.on_error = "silent"
  /\ now = 0 /\ ~redis_up
  /\ DictGet(REDIS, <<"r", CreateCacheKey(5)>>) = Garbage
  /\ \E t, s \in Callers :
       /\ t # s /\ th[t].fid = "r" /\ th[s].fid = "r" /\ ~th[t].skip /\ ~th[s].skip
       /\ Ended(t) /\ th[t].executed /\ th[t].result = <<"r", 5, 1>>
       /\ Ended(s) /\ th[s].executed /\ th[s].result = <<"r", 5, 2>>

\* caller t's execution has returned a result that cannot be pickled and
\* the call has ended
EndedUnpicklable(t) ==
  Ended(t) /\ th[t].fid \in {"u", "w"} /\ th[t].executed /\ th[t].err # "Exception"

\* the lock caller t's last call took is still on the server
StillLocked(t) ==
  \E l \in REDIS_LOCKS : l.token = <<t, th[t].n>> /\ Live(l, now)

\* C19: a result that cannot be pickled raises TypeError under either
\* policy, nothing is written for its key, and once the call has ended its
\* lock is released.
C19_Unserializable ==
  /\ \A t \in Callers :
       EndedUnpicklable(t) => th[t].exc /\ th[t].err = "TypeError" /\ ~StillLocked(t)
  /\ \A i \in DOMAIN REDIS :
       REDIS[i].key[1] \in {"u", "w"} => REDIS[i].entry = Garbage

\* C19 for the results pickle.dumps rejects with PicklingError, TypeError or
\* AttributeError, such as the lambda of u: the call raises TypeError under
\* either policy, nothing is written for its key, and its lock is released
\* unless the release command failed
C19_Rejected ==
  /\ \A t \in Callers :
       (EndedUnpicklable(t) /\ th[t].fid = "u") =>
         /\ th[t].exc /\ th[t].err = "TypeError"
         /\ StillLocked(t) => \E l \in unreleased : l.token = <<t, th[t].n>>
  /\ \A i \in DOMAIN REDIS :
       REDIS[i].key[1] \in {"u", "w"} => REDIS[i].entry = Garbage

\* a call of w has ended with the exception of pickle.dumps, under the
\* policy silent, with the server reachable and its lock released
C19_Escapes ==
  /\ redis_config.on_error = "silent" /\ redis_up
  /\ \E t \in Callers :
       /\ EndedUnpicklable(t) /\ th[t].fid = "w" /\ th[t].err = "RecursionError"
       /\ ~StillLocked(t) /\ unreleased = {}

\* ------------------------------------------- shared-mode fingerprinting
MaxDepth == 3

\* the values at the leaves of an argument: an int, and objects pickle.dumps
\* cannot serialize: a lambda, a threading.Lock, an instance of a local
\* class, a list nested deeper than the recursion limit and an object whose
\* __reduce__ raises RuntimeError
LeafKinds == {"int", "lambda", "lock", "local", "deep", "reducer"}

Leaf(kind) == [kind |-> kind, items |-> <<>>]
List(items) == [kind |-> "list", items |-> items]

RECURSIVE Values(_)
\* the values with containers nested up to depth d: a container holds one
\* value, alone or after an int
Values(d) ==
  IF d = 0 THEN {Leaf(k) : k \in LeafKinds}
  ELSE Values(d - 1) \cup {List(<<v>>) : v \in Values(d - 1)}
                    \cup {List(<<Leaf("int"), v>>) : v \in Values(d - 1)}

\* the exception pickle.dumps raises on a leaf, "" if it serializes it
LeafError(kind) ==
  CASE kind = "int" -> ""
    [] kind = "lambda" -> "PicklingError"
    [] kind = "lock" -> "TypeError"
    [] kind = "local" -> "AttributeError"
    [] kind = "deep" -> "RecursionError"
    [] kind = "reducer" -> "RuntimeError"

RECURSIVE dumps(_)
RECURSIVE dumps_all(_)
\* pickle.dumps(value): the exception it raises, that of the first value it
\* cannot serialize on its way through the containers, "" if it returns
dumps(v) == IF v.kind = "list" THEN dumps_all(v.items) ELSE LeafError(v.kind)

dumps_all(s) ==
  IF s = <<>> THEN ""
  ELSE IF dumps(Head(s)) # "" THEN dumps(Head(s))
  ELSE dumps_all(Tail(s))

\* _process_shared_fingerprint: the exception it raises, "digest" if it
\* returns one
process_shared_fingerprint(v) ==
  IF dumps(v) \in {"PicklingError", "TypeError", "AttributeError"} THEN "ValueError"
  ELSE IF dumps(v) # "" THEN dumps(v)
  ELSE "digest"

\* _iter_arguments: the values of the parameters that are not ignored, in
\* order, as the tuple that is fingerprinted (the names are strings)
iter_arguments(args, ignore_fields) ==
  LET kept == SelectSeq(args, LAMBDA p : p.name \notin ignore_fields)
  IN List([i \in DOMAIN kept |-> kept[i].value])

\* create_cache_key with process_isolated = False: the arguments without the
\* ignored ones, or what cache_key_func, which here returns the first
\* argument, makes of them; a TypeError of the fingerprint of the latter
\* becomes ValueError
create_cache_key(cache_key_func, ignore_fields, args) ==
  IF ~cache_key_func
  THEN process_shared_fingerprint(iter_arguments(args, ignore_fields))
  ELSE IF process_shared_fingerprint(args[1].value) = "TypeError" THEN "ValueError"
  ELSE process_shared_fingerprint(args[1].value)

\* the calls r(a, b) of a function decorated with @redis_cache, with
\* ignore_fields or with cache_key_func, never with both
SharedCalls ==
  {c \in [cache_key_func : BOOLEAN, ignore_fields : {{}, {"a"}, {"b"}},
          args : {<<[name |-> "a", value |-> va], [name |-> "b", value |-> Leaf(kb)]>> :
                    va \in Values(MaxDepth), kb \in LeafKinds}] :
     ~(c.cache_key_func /\ c.ignore_fields # {})}

\* the wrapper's first step on the call recorded in last: create_cache_key;
\* its exception leaves the wrapper, and with a key the lookup in the empty
\* store misses and the call goes on to the lock
CallShared(t) ==
  /\ th[t].pc = "idle"
  /\ budget > 0
  /\ last.op = "call"
  /\ budget' = budget - 1
  /\ LET out == create_cache_key(last.args[1].cache_key_func, last.args[1].ignore_fields,
                                 last.args[1].args)
         c == [IdleCaller EXCEPT !.fid = "r", !.arg = 5, !.n = th[t].n + 1]
     IN /\ last' = [last EXCEPT !.op = "create_cache_key", !.out = out, !.n = 1]
        /\ th' = [th EXCEPT ![t] =
                    IF out = "digest" THEN [c EXCEPT !.pc = "lock"]
                    ELSE [c EXCEPT !.exc = TRUE, !.err = out]]
  /\ UNCHANGED <<now, CACHE, lockvars, call_count, sweeper, space, redisvars, ndvars, SHADOW, skipped, raised, extras>>

InitFingerprint ==
  /\ Begin
  /\ budget = 1
  /\ space = {<<"r", 5, FALSE>>}
  /\ redis_config = DefaultConfig
  /\ \E c \in SharedCalls : last = [op |-> "call", out |-> "", n |-> 0, args |-> <<c>>]

NextFingerprint ==
  \/ \E t \in Callers : CallShared(t)
  \/ \E t \in Callers : RedisAcquire(t)
  \/ \E t \in Callers : Recheck(t)
  \/ \E t \in Callers : Return(t)
  \/ \E t \in Callers : RedisRelease(t)

SpecFingerprint == InitFingerprint /\ [][NextFingerprint]_vars

RECURSIVE Serializable(_)
\* every value in v, at any depth, is one pickle can serialize
Serializable(v) ==
  IF v.kind = "list" THEN \A i \in DOMAIN v.items : Serializable(v.items[i])
  ELSE v.kind = "int"

\* what the call c has fingerprinted: the arguments that are not ignored,
\* or the value of the key function
Fingerprinted(c) ==
  IF c.cache_key_func THEN c.args[1].value
  ELSE List([i \in 1..Cardinality({j \in DOMAIN c.args : c.args[j].name \notin c.ignore_fields}) |->
               IF c.args[1].name \in c.ignore_fields THEN c.args[i + 1].value
               ELSE IF i = 2 \/ c.args[2].name \notin c.ignore_fields THEN c.args[i].value
               ELSE c.args[1].value])

\* the call's key has been derived, or has failed to be, from something that
\* cannot be serialized
KeyedUnserializable ==
  last.op = "create_cache_key" /\ ~Serializable(Fingerprinted(last.args[1]))

\* C20: when a non-ignored argument, a value nested in it at any depth, or
\* the value of the key function cannot be serialized, the call fails with
\* ValueError, the function is not executed and nothing is stored.
C20_Unfingerprintable ==
  KeyedUnserializable
  => /\ last.out = "ValueError"
     /\ \A t \in Callers : th[t].n > 0 =>
          Ended(t) /\ th[t].exc /\ th[t].err = "ValueError" /\ ~th[t].executed
     /\ REDIS = <<>> /\ call_count["r"] = 0

\* C20 for the values pickle.dumps rejects with PicklingError, TypeError or
\* AttributeError: the call fails with ValueError; with any other exception
\* of pickle.dumps it fails with that exception; either way the function is
\* not executed and nothing is stored
C20_Rejected ==
  KeyedUnserializable
  => /\ last.out \in {"ValueError", "RecursionError", "RuntimeError"}
     /\ last.out = "ValueError" <=>
          dumps(Fingerprinted(last.args[1])) \in {"PicklingError", "TypeError", "AttributeError"}
     /\ \A t \in Callers : th[t].n > 0 =>
          Ended(t) /\ th[t].exc /\ th[t].err = last.out /\ ~th[t].executed
     /\ REDIS = <<>> /\ call_count["r"] = 0

\* a call with a list nested deeper than the recursion limit inside its
\* first argument has failed with RecursionError
C20_Escapes ==
  /\ KeyedUnserializable /\ last.out = "RecursionError"
  /\ \E t \in Callers : Ended(t) /\ th[t].err = "RecursionError"

\* ------------------------------------------------ the never-die registry
\* the identity of a registry entry: (function id, cache key)
Identity(e) == <<e.fid, CreateCacheKey(e.arg)>>

\* C23: registering is idempotent. After every step no two entries of the
\* registry have the same identity, and a call of a never-die function whose
\* identity is registered already leaves the registry as it is, whatever
\* the other callers are doing.
C23_RegisterIdempotent ==
  [][/\ \A i, j \in DOMAIN NEVER_DIE_REGISTRY' :
          i # j => Identity(NEVER_DIE_REGISTRY'[i]) # Identity(NEVER_DIE_REGISTRY'[j])
     /\ \A t \in Callers :
          ( /\ MakesCall(t) /\ never_die(th'[t].fid)
            /\ \E i \in DOMAIN NEVER_DIE_REGISTRY :
                 Identity(NEVER_DIE_REGISTRY[i]) = KeyOf(th'[t]) )
          => NEVER_DIE_REGISTRY' = NEVER_DIE_REGISTRY]_vars

\* C23 witness: both callers have called h(5), the second while the first
\* was still inside its call, and the registry holds one entry
C23_Witness ==
  /\ Len(NEVER_DIE_REGISTRY) = 1
  /\ \A t \in Callers : th[t].n = 1 /\ th[t].fid = "h" /\ th[t].pc # "idle"

\* the Refresher starts a worker for an entry in this step
Launches ==
  refresher.pc = "spawn" /\ refresher' # refresher /\ th'[Worker] # th[Worker]

LooksUp(t) ==
  /\ ~IsRedis(th'[t].fid)
  /\ MakesCall(t) \/ Rechecks(t)

\* C28: get and is_expired do not modify the in-process store. A lookup
\* leaves _CACHE as it is; for a key whose entry has expired it is a miss and
\* the entry stays; and a key leaves _CACHE only in a step of the Sweeper.
C28_GetIsReadOnly ==
  [][/\ \A t \in Callers :
          LooksUp(t) =>
            /\ CACHE' = CACHE
            /\ ( /\ ~th'[t].skip /\ Stored(th'[t]) # NoEntry
                 /\ EntryIsExpired(Stored(th'[t]), now) )
               => /\ th'[t].result = NoResult
                  /\ th'[t].pc = IF MakesCall(t) THEN "lock" ELSE "exec"
     /\ (\E i \in DOMAIN CACHE : ~HasKey(CACHE', CACHE[i].key))
          => sweeper.pc = "del" /\ sweeper'.pc # "del"]_vars

\* C28 witness: the only caller that has made calls stored its result in
\* its first call and, without skip_cache, is past the lookup of its second
\* call and on its way to the lock: the entry, still in _CACHE, had expired
C28_Witness ==
  \E t \in Callers :
    /\ \A s \in Callers \ {t} : th[s].n = 0
    /\ th[t].n = 2 /\ ~th[t].skip /\ th[t].pc = "lock" /\ call_count[th[t].fid] = 1
    /\ Stored(th[t]) # NoEntry /\ EntryIsExpired(Stored(th[t]), now)

\* ------------------------------------------------ the background threads
MaxThreads == 3

\* the state of the wrappers, the stores and the configuration
wrappervars == <<now, CACHE, lockvars, call_count, th, sweeper, space, budget, REDIS, REDIS_LOCKS, redis_up, unreleased, ndvars, SHADOW, skipped, raised, redis_config, last, native, NEVER_DIE_CACHE_THREADS, refresh_threads>>

\* the two loops: _start_cache_clear_thread starts the Sweeper,
\* _start_never_die_thread the Refresher
Loops == {"sweeper", "refresher"}

\* the thread the global of loop w refers to is alive
IsAlive(w) == loops.thread[w] # 0 /\ <<w, loops.thread[w]>> \in loops.alive

\* caller t calls _start_cache_clear_thread (from cache()) or
\* _start_never_die_thread (from register_never_die_function)
StartCall(t, w) ==
  /\ loops.pc[t].pc = "idle"
  /\ loops' = [loops EXCEPT !.pc[t] = [pc |-> "lock", which |-> w]]
  /\ UNCHANGED <<wrappervars, frame, loop_closed>>

\* a start that does not wait for the lock
StartLockFree(t) ==
  /\ loops.pc[t].pc = "lock"
  /\ loops' = [loops EXCEPT !.pc[t].pc = "check"]
  /\ UNCHANGED <<wrappervars, frame, loop_closed>>

\* with _NEVER_DIE_LOCK: / with _CACHE_CLEAR_LOCK:
StartLock(t) ==
  /\ loops.pc[t].pc = "lock"
  /\ loops.lock[loops.pc[t].which] = 0
  /\ loops' = [loops EXCEPT !.pc[t].pc = "check", !.lock[loops.pc[t].which] = t]
  /\ UNCHANGED <<wrappervars, frame, loop_closed>>

\* if _NEVER_DIE_THREAD and _NEVER_DIE_THREAD.is_alive(): return
StartCheck(t) ==
  /\ loops.pc[t].pc = "check"
  /\ loops' = [loops EXCEPT !.pc[t].pc =
                 IF IsAlive(loops.pc[t].which) THEN "unlock" ELSE "create"]
  /\ UNCHANGED <<wrappervars, frame, loop_closed>>

\* _NEVER_DIE_THREAD = threading.Thread(target=..., daemon=True)
StartCreate(t) ==
  /\ loops.pc[t].pc = "create"
  /\ loops.started < MaxThreads
  /\ loops' = [loops EXCEPT !.pc[t].pc = "start",
                            !.started = loops.started + 1,
                            !.thread[loops.pc[t].which] = loops.started + 1]
  /\ UNCHANGED <<wrappervars, frame, loop_closed>>

\* _NEVER_DIE_THREAD.start(): the thread the global refers to; starting a
\* thread twice raises RuntimeError
StartRun(t) ==
  /\ loops.pc[t].pc = "start"
  /\ loops' = [loops EXCEPT !.pc[t].pc = "unlock",
                            !.alive = loops.alive \cup
                              {<<loops.pc[t].which, loops.thread[loops.pc[t].which]>>}]
  /\ UNCHANGED <<wrappervars, frame, loop_closed>>

\* the with block is left and the lock released, if it is held
StartUnlock(t) ==
  /\ loops.pc[t].pc = "unlock"
  /\ loops' = [loops EXCEPT !.pc[t] = [pc |-> "idle", which |-> ""],
                            !.lock[loops.pc[t].which] =
                              IF loops.lock[loops.pc[t].which] = t THEN 0 ELSE @]
  /\ UNCHANGED <<wrappervars, frame, loop_closed>>

\* a background thread ends: an exception has left its loop
LoopDies(w) ==
  /\ loops.started < MaxThreads
  /\ \E x \in loops.alive :
       /\ x[1] = w
       /\ loops' = [loops EXCEPT !.alive = loops.alive \ {x}]
  /\ UNCHANGED <<wrappervars, frame, loop_closed>>

InitLoops ==
  /\ Begin
  /\ last = NoCall
  /\ budget = 0
  /\ space = {}
  /\ redis_config = NoConfig

NextLoops ==
  \/ \E t \in Callers, w \in Loops : StartCall(t, w)
  \/ \E t \in Callers : StartLock(t)
  \/ \E t \in Callers : StartCheck(t)
  \/ \E t \in Callers : StartCreate(t)
  \/ \E t \in Callers : StartRun(t)
  \/ \E t \in Callers : StartUnlock(t)
  \/ \E w \in Loops : LoopDies(w)

SpecLoops == InitLoops /\ [][NextLoops]_vars

\* the threads of loop w that are alive, in the state given by l
AliveOf(l, w) == {x \in l.alive : x[1] = w}

\* C29: the background loops are singletons. After every step at most one
\* Sweeper thread and at most one Refresher thread are alive, whatever the
\* interleaving of the callers that start them; and a call that finds the
\* loop's thread alive creates and starts none.
C29_SingletonLoops ==
  [][/\ \A w \in Loops : Cardinality(AliveOf(loops', w)) <= 1
     /\ \A w \in Loops :
          AliveOf(loops, w) # {} =>
            /\ loops'.thread[w] = loops.thread[w]
            /\ AliveOf(loops', w) \subseteq AliveOf(loops, w)]_vars

\* C29 witness: a Sweeper and a Refresher are alive, the Refresher being the
\* second of its kind, started after the first had ended; one caller has
\* found it alive and is about to leave _start_never_die_thread while the
\* other waits for _NEVER_DIE_LOCK
C29_Witness ==
  /\ IsAlive("sweeper") /\ IsAlive("refresher")
  /\ loops.started = MaxThreads
  /\ \E t, s \in Callers :
       /\ loops.pc[t] = [pc |-> "unlock", which |-> "refresher"]
       /\ loops.lock["refresher"] = t
       /\ loops.pc[s] = [pc |-> "lock", which |-> "refresher"]

\* ------------------------------------------- never-die coroutine functions
\* the state after the calls fs[1](5), fs[2](5), ... of never-die functions
\* have returned at time 0 (the coroutine functions among them run by
\* asyncio.run), the loop of the coroutines being closed or still open
Registered(fs, closed) ==
  /\ now = 0
  /\ \E store \in {[i \in DOMAIN fs |->
                     [key |-> <<fs[i], CreateCacheKey(5)>>,
                      entry |-> CacheEntry(<<fs[i], 5, 1>>, NoTTL, 0)]]} :
       CACHE = store /\ SHADOW = store
  /\ SYNC_LOCKS = [f \in Funcs |->
                     IF \E i \in DOMAIN fs : fs[i] = f
                     THEN CHOOSE i \in DOMAIN fs : fs[i] = f
                     ELSE NoDict]
  /\ held = {}
  /\ dicts = Len(fs)
  /\ call_count = [f \in Funcs |-> IF \E i \in DOMAIN fs : fs[i] = f THEN 1 ELSE 0]
  /\ th = [t \in Threads |->
             IF t = 1
             THEN [IdleCaller EXCEPT !.fid = fs[Len(fs)], !.arg = 5, !.n = Len(fs),
                                     !.result = <<fs[Len(fs)], 5, 1>>, !.executed = TRUE]
             ELSE IdleCaller]
  /\ sweeper = [pc |-> "sleep", snap |-> <<>>]
  /\ REDIS = <<>>
  /\ REDIS_LOCKS = {}
  /\ redis_up = TRUE
  /\ redis_config = DefaultConfig
  /\ NEVER_DIE_REGISTRY = [i \in DOMAIN fs |-> NeverDieCacheEntry(fs[i], 5, 0)]
  /\ failures = [i \in DOMAIN fs |-> 0]
  /\ frame = NoFrame
  /\ loops = NoLoops
  /\ native = NoNative
  /\ NEVER_DIE_CACHE_THREADS = <<>>
  /\ refresh_threads = NoThreads
  /\ loop_closed = closed
  /\ refresher = [pc |-> "sleep", snap |-> <<>>]
  /\ skipped = {}
  /\ raised = {}
  /\ unreleased = {}
  /\ last = NoCall
  /\ budget = 0
  /\ space = {<<fs[i], 5, FALSE>> : i \in DOMAIN fs}

\* c(5) was awaited in a loop that has since been closed, then h(5) called
InitClosedLoop == Registered(<<"c", "h">>, TRUE)

\* the Refresher and the refreshes it starts, over the time in which an
\* entry falls due
NextClosedLoop ==
  \/ LockLookup(Worker)
  \/ Release(Worker)
  \/ RefreshScan
  \/ RefreshCheck
  \/ RefreshSpawn
  \/ WorkerAcquire
  \/ WorkerReturn
  \/ WorkerRaise
  \/ TickBy(1, MaxTime + TTL)

SpecClosedLoop == InitClosedLoop /\ [][NextClosedLoop]_vars

\* c(5) was awaited in a loop that is still running
InitCancel == Registered(<<"c">>, FALSE)

\* the task of a refresh is cancelled (future.cancel(), or the loop's
\* shutdown cancelling its tasks): CancelledError is raised at the await the
\* task is suspended in. Before the task has entered the try block the
\* error leaves _run_async_function_and_cache; at await entry.function(...)
\* it is caught by except BaseException (lines 98-99), which calls
\* entry.revive() and ends the coroutine normally
WorkerCancel ==
  /\ th[Worker].pc \in {"lock", "acquire", "exec"}
  /\ iscoroutinefunction(th[Worker].fid)
  /\ NEVER_DIE_REGISTRY' =
       IF th[Worker].pc = "exec"
       THEN [NEVER_DIE_REGISTRY EXCEPT ![EntryOf(th[Worker])] = revive(@, now)]
       ELSE NEVER_DIE_REGISTRY
  /\ failures' =
       IF th[Worker].pc = "exec"
       THEN [failures EXCEPT ![EntryOf(th[Worker])] = Bump(@)]
       ELSE failures
  /\ th' = [th EXCEPT ![Worker] =
              IF th[Worker].pc = "exec"
              THEN [@ EXCEPT !.pc = "unlock", !.exc = TRUE, !.err = "CancelledError"]
              ELSE [IdleCaller EXCEPT !.n = th[Worker].n, !.err = "CancelledError"]]
  /\ UNCHANGED <<now, CACHE, lockvars, call_count, sweeper, space, last, budget, redisvars, refresher, SHADOW, skipped, raised, extras>>

NextCancel ==
  \/ NextClosedLoop
  \/ WorkerCancel

SpecCancel == InitCancel /\ [][NextCancel]_vars

\* the step in which a refresh is cancelled
Cancels == th'[Worker].err = "CancelledError" /\ th[Worker].err # "CancelledError"

\* C27: a cancelled never-die refresh does not change the entry's backoff
\* state: the backoff factor and the next due time of every entry are after
\* the step that cancels the refresh what they were before it, so that the
\* entry, which was due when the refresh was launched, is due again at the
\* Refresher's next pass.
C27_CancelKeepsBackoff ==
  [][Cancels => NEVER_DIE_REGISTRY' = NEVER_DIE_REGISTRY]_vars

\* C27, the part that holds: a refresh cancelled before it has entered the
\* function leaves the registry as it was
C27_CancelBeforeStart ==
  [][(Cancels /\ th[Worker].pc # "exec") => NEVER_DIE_REGISTRY' = NEVER_DIE_REGISTRY]_vars

\* C27: a refresh has been cancelled inside the function and its entry is
\* backed off and not due
C27_BackedOffByCancel ==
  /\ th[Worker].err = "CancelledError"
  /\ th[Worker].pc = "unlock"
  /\ NEVER_DIE_REGISTRY[1].backoff = BACKOFF_MULTIPLIER
  /\ ~NeverDieIsExpired(NEVER_DIE_REGISTRY[1], now)

\* C30: while the loop of a coroutine's entry is closed, no step changes the
\* entry (its backoff factor and due time stay), no refresh of a coroutine
\* is running, and the step of the Refresher that has found the entry due
\* starts nothing and moves on to the next entry of its pass, or to sleep
\* after the last.
C30_ClosedLoopSkipped ==
  [][/\ \A i \in DOMAIN NEVER_DIE_REGISTRY :
          (iscoroutinefunction(NEVER_DIE_REGISTRY[i].fid) /\ loop_closed) =>
            NEVER_DIE_REGISTRY'[i] = NEVER_DIE_REGISTRY[i]
     /\ (loop_closed' /\ th'[Worker].pc # "idle") => ~iscoroutinefunction(th'[Worker].fid)
     /\ ( /\ refresher.pc = "spawn"
          /\ refresher' # refresher
          /\ loop_closed
          /\ iscoroutinefunction(NEVER_DIE_REGISTRY[Head(refresher.snap)].fid) ) =>
          th' = th /\ refresher' = Advance(refresher)]_vars

\* C30 witness: in a pass of the Refresher the entry of c, due and as it was
\* registered, has been passed over and the entry of h is next; h has been
\* refreshed in an earlier pass and c never
C30_Witness ==
  /\ loop_closed
  /\ refresher = [pc |-> "scan", snap |-> <<2>>]
  /\ NEVER_DIE_REGISTRY[1] = NeverDieCacheEntry("c", 5, 0)
  /\ NeverDieIsExpired(NEVER_DIE_REGISTRY[1], now)
  /\ call_count["h"] = 2
  /\ call_count["c"] = 1

\* ------------------------------------ the fingerprint of the in-memory cache
\* The objects the calls pass, by address (id): their kind, the result of
\* hash() on the hashable ones, and what the containers hold. A small int is
\* one object wherever it occurs. A set is given
\* by the order in which it iterates, which for equal sets depends on the
\* order of insertion when elements collide in the table (frozenset({0}) and
\* frozenset({14}) do); a dict by its items in insertion order.
Obj(i) ==
  CASE i = 1 -> [kind |-> "int", hash |-> 1]
    [] i = 2 -> [kind |-> "int", hash |-> 2]
    [] i = 3 -> [kind |-> "str", hash |-> 101]                       \* "a"
    [] i = 4 -> [kind |-> "str", hash |-> 102]                       \* "b"
    [] i = 5 -> [kind |-> "str", hash |-> 103]                       \* "data"
    [] i = 6 -> [kind |-> "str", hash |-> 104]                       \* "ignored"
    [] i = 7 -> [kind |-> "lock", hash |-> 201]                      \* threading.Lock()
    [] i = 8 -> [kind |-> "frozenset", hash |-> 301, elems |-> {0}]
    [] i = 9 -> [kind |-> "frozenset", hash |-> 302, elems |-> {14}]
    [] i = 10 -> [kind |-> "list", items |-> <<7, 7>>]               \* [lock, lock]
    [] i = 11 -> [kind |-> "list", items |-> <<7, 7, 7>>]            \* [lock, lock, lock]
    [] i = 12 -> [kind |-> "set", items |-> <<1, 2>>]                \* {1, 2}
    [] i = 13 -> [kind |-> "set", items |-> <<2, 1>>]                \* {2, 1}
    [] i = 14 -> [kind |-> "set", items |-> <<8, 9>>]
    [] i = 15 -> [kind |-> "set", items |-> <<9, 8>>]
    [] i = 16 -> [kind |-> "set", items |-> <<1, 3>>]                \* {1, "a"}
    [] i = 17 -> [kind |-> "dict", items |-> <<<<3, 17>>>>]          \* d = {"a": d}
    [] i = 18 -> [kind |-> "dict", items |-> <<<<3, 1>>>>]           \* {"a": 1}
    [] i = 19 -> [kind |-> "dict", items |-> <<<<4, 18>>>>]          \* {"b": {"a": 1}}
    [] i = 20 -> [kind |-> "int", hash |-> 3]
    [] i = 21 -> [kind |-> "list", items |-> <<1, 2>>]
    [] i = 22 -> [kind |-> "list", items |-> <<20>>]
    [] i = 23 -> [kind |-> "list", items |-> <<21, 22>>]             \* [[1, 2], [3]]
    [] i = 24 -> [kind |-> "list", items |-> <<1>>]
    [] i = 25 -> [kind |-> "list", items |-> <<2, 20>>]
    [] i = 26 -> [kind |-> "list", items |-> <<24, 25>>]             \* [[1], [2, 3]]
    [] i = 27 -> [kind |-> "list", items |-> <<1, 2, 20>>]           \* [1, 2, 3]
    [] i = 28 -> [kind |-> "list", items |-> <<1, 2, 20, 20>>]       \* [1, 2, 3, 3]

\* the object at address i: a tuple of the frame, or an object of the caller
At(fr, i) ==
  IF i \in DOMAIN fr.tuples THEN [kind |-> "tuple", items |-> fr.tuples[i]] ELSE Obj(i)

RECURSIVE Hashable(_, _)
\* hash(current) raises no TypeError: it does for a list, a set, a dict and
\* for a tuple that holds one at any depth
Hashable(fr, i) ==
  LET o == At(fr, i)
  IN IF o.kind \in {"list", "set", "dict"} THEN FALSE
     ELSE IF o.kind # "tuple" THEN TRUE
     ELSE \A j \in DOMAIN o.items : Hashable(fr, o.items[j])

RECURSIVE Flat(_)
Flat(ss) == IF ss = <<>> THEN <<>> ELSE Head(ss) \o Flat(Tail(ss))

RECURSIVE Hash(_, _)
\* hash(current) of a hashable object, as a sequence of numbers: the hash
\* of a tuple is made of its length and its items' hashes
Hash(fr, i) ==
  LET o == At(fr, i)
  IN IF o.kind # "tuple" THEN <<o.hash>>
     ELSE <<0, Len(o.items)>> \o Flat([j \in DOMAIN o.items |-> Hash(fr, o.items[j])])

\* sorted(current) raises TypeError: two of the elements cannot be compared
\* by <, being of different types or of a type without an order
SortFails(s) ==
  \E j, k \in DOMAIN s :
    /\ j # k
    /\ \/ Obj(s[j]).kind # Obj(s[k]).kind
       \/ Obj(s[j]).kind \notin {"int", "str", "frozenset"}

RECURSIVE sorted(_)
\* sorted(current), for the short lists of this universe: list.sort inserts
\* each element into the sorted prefix after the last element it is not
\* less than, so that elements of which none is less than the other keep
\* their order; a < b is by value for int and str (the strings here hash in
\* their order) and proper subset for frozenset
sorted(s) ==
  IF Len(s) <= 1 THEN s
  ELSE LET Less(a, b) ==
             IF Obj(a).kind = "frozenset"
             THEN Obj(a).elems # Obj(b).elems /\ Obj(a).elems \subseteq Obj(b).elems
             ELSE Obj(a).hash < Obj(b).hash
           pre == sorted(SubSeq(s, 1, Len(s) - 1))
           x == s[Len(s)]
           keep == {j \in DOMAIN pre : ~Less(x, pre[j])}
           at == IF keep = {} THEN 0 ELSE CHOOSE j \in keep : \A k \in keep : k <= j
       IN SubSeq(pre, 1, at) \o <<x>> \o SubSeq(pre, at + 1, Len(pre))

\* the calls f(data, ignored) of a function decorated with @cache(ttl=TTL),
\* with or without ignore_fields=("ignored",)
IsolatedCalls ==
  [data : {1, 10, 11, 12, 13, 14, 15, 16, 17, 19, 23, 26, 27, 28}, ignored : {3, 4}]

\* _iter_arguments, and tuple(...) of it in create_cache_key: the pairs
\* (name, value) of the parameters that are not ignored, as tuples at the
\* addresses 42 and 43, and the tuple of them at 41, all alive until
\* create_cache_key returns
iter_isolated(c, ignore) ==
  [i \in (IF ignore THEN {41, 42} ELSE {41, 42, 43}) |->
     IF i = 41 THEN (IF ignore THEN <<42>> ELSE <<42, 43>>)
     ELSE IF i = 42 THEN <<5, c.data>>
     ELSE <<6, c.ignored>>]

\* create_cache_key, lines 102-107: the caller's next call binds its
\* arguments and starts _process_isolated_fingerprint(items), lines 14-16
KeyBegin(t) ==
  /\ th[t].pc = "idle"
  /\ frame.pc \in {"idle", "keyed"}
  /\ th[t].n = Len(frame.keys)
  /\ Len(frame.keys) < Len(frame.calls)
  /\ frame' = [frame EXCEPT !.pc = "run", !.stack = <<41>>, !.seen = {}, !.result = <<>>,
                            !.tuples = iter_isolated(frame.calls[Len(frame.keys) + 1],
                                                     frame.ignore)]
  /\ UNCHANGED <<wrappervars, loops, loop_closed>>

\* the addresses dict.items() may create its tuples at when current is a
\* dict not seen before: the addresses 31 and 32, unless a tuple on the stack
\* is there (a tuple popped earlier is freed when current is rebound, and
\* its address is free for the next tuple; whether the allocator hands it
\* out again depends on what else the process has allocated and freed in
\* between)
Allocs(fr) ==
  LET current == fr.stack[Len(fr.stack)]
      o == At(fr, current)
  IN IF fr.stack # <<>> /\ current \notin fr.seen /\ o.kind = "dict"
     THEN {a \in [DOMAIN o.items -> {31, 32} \ {fr.stack[j] : j \in DOMAIN fr.stack}] :
             \A j, k \in DOMAIN a : j # k => a[j] # a[k]}
     ELSE {<<>>}

\* one pass of the while loop, lines 18-43, or the return of line 45
VisitStep(fr, alloc) ==
  IF fr.stack = <<>>
  THEN [fr EXCEPT !.pc = "keyed", !.keys = Append(fr.keys, fr.result)]
  ELSE LET current == fr.stack[Len(fr.stack)]
           rest == SubSeq(fr.stack, 1, Len(fr.stack) - 1)
           o == At(fr, current)
           popped == [fr EXCEPT !.stack = rest, !.seen = fr.seen \cup {current}]
       IN IF current \in fr.seen THEN [fr EXCEPT !.stack = rest]
          ELSE IF Hashable(fr, current)
          THEN [popped EXCEPT !.result = Append(fr.result, Hash(fr, current))]
          ELSE IF o.kind \in {"list", "tuple"}
          THEN [popped EXCEPT !.stack = rest \o o.items]
          ELSE IF o.kind = "set"
          THEN IF SortFails(o.items) THEN [popped EXCEPT !.pc = "raised"]
               ELSE [popped EXCEPT !.stack = rest \o sorted(o.items)]
          ELSE IF o.kind = "dict"
          THEN [popped EXCEPT
                  !.stack = rest \o alloc,
                  !.tuples = [i \in DOMAIN fr.tuples \cup {alloc[j] : j \in DOMAIN alloc} |->
                                IF \E j \in DOMAIN alloc : alloc[j] = i
                                THEN o.items[CHOOSE j \in DOMAIN alloc : alloc[j] = i]
                                ELSE fr.tuples[i]]]
          ELSE [popped EXCEPT !.result = Append(fr.result, <<current>>)]

Visit ==
  /\ frame.pc = "run"
  /\ \E alloc \in Allocs(frame) : frame' = VisitStep(frame, alloc)
  /\ UNCHANGED <<wrappervars, loops, loop_closed>>

\* sync_wrapper with the key derived: the keys are compared as the digests
\* are, and the second call looks up the first call's key when its digest is
\* the same and another key when it is not
CallKeyed(t) ==
  /\ frame.pc = "keyed"
  /\ th[t].n = Len(frame.keys) - 1
  /\ Call(t, "f", IF Len(frame.keys) = 2 /\ frame.keys[2] # frame.keys[1] THEN 10 ELSE 5, FALSE)

InitIsolated ==
  /\ now = 0
  /\ CACHE = <<>>
  /\ SYNC_LOCKS = [f \in Funcs |-> NoDict]
  /\ held = {}
  /\ dicts = 0
  /\ call_count = [f \in Funcs |-> 0]
  /\ th = [t \in Threads |-> IdleCaller]
  /\ sweeper = [pc |-> "sleep", snap |-> <<>>]
  /\ REDIS = <<>>
  /\ REDIS_LOCKS = {}
  /\ redis_up = TRUE
  /\ NEVER_DIE_REGISTRY = <<>>
  /\ refresher = [pc |-> "off", snap |-> <<>>]
  /\ SHADOW = <<>>
  /\ skipped = {}
  /\ raised = {}
  /\ unreleased = {}
  /\ failures = <<>>
  /\ loops = NoLoops
  /\ native = NoNative
  /\ NEVER_DIE_CACHE_THREADS = <<>>
  /\ refresh_threads = NoThreads
  /\ loop_closed = FALSE
  /\ last = NoCall
  /\ budget = 2
  /\ space = {<<"f", 5, FALSE>>, <<"f", 10, FALSE>>}
  /\ redis_config = DefaultConfig
  /\ \E c1, c2 \in IsolatedCalls, ignore \in BOOLEAN :
       frame = [pc |-> "idle", calls |-> <<c1, c2>>, ignore |-> ignore, keys |-> <<>>,
                stack |-> <<>>, seen |-> {}, result |-> <<>>, tuples |-> <<>>]

NextIsolated ==
  \/ KeyBegin(1)
  \/ Visit
  \/ CallKeyed(1)
  \/ LockLookup(1)
  \/ LockCreate(1)
  \/ Acquire(1)
  \/ Recheck(1)
  \/ Return(1)
  \/ Release(1)

SpecIsolated == InitIsolated /\ [][NextIsolated]_vars /\ WF_vars(Visit)

\* both calls have derived their keys / have returned
BothKeyed == Len(frame.keys) = 2
BothReturned == BothKeyed /\ th[1].n = 2 /\ th[1].pc = "idle"

\* the values passed for data in the first and in the second call
Data(k) == Obj(frame.calls[k].data)

\* the argument ignored does not tell the two calls apart
IgnoredAlike == frame.ignore \/ frame.calls[1].ignored = frame.calls[2].ignored

\* the two calls pass sets with the same elements
SameSets ==
  /\ Data(1).kind = "set" /\ Data(2).kind = "set"
  /\ {Data(1).items[j] : j \in DOMAIN Data(1).items} =
     {Data(2).items[j] : j \in DOMAIN Data(2).items}

\* C21: two set arguments with the same elements give the same digest,
\* whatever the order in which the sets iterate.
C21_SetOrderInsensitive ==
  (BothKeyed /\ SameSets /\ IgnoredAlike) => frame.keys[1] = frame.keys[2]

\* C21 for sets whose elements are all ordered by <, such as sets of int:
\* the digest does not depend on the order of iteration
C21_OrderedElements ==
  (BothKeyed /\ SameSets /\ IgnoredAlike /\ Obj(Data(1).items[1]).kind = "int")
  => frame.keys[1] = frame.keys[2]

\* C21: the sets {frozenset({0}), frozenset({14})} of two iteration orders
\* have been given different digests
C21_Diverged ==
  /\ BothKeyed /\ IgnoredAlike
  /\ frame.calls[1].data = 14 /\ frame.calls[2].data = 15
  /\ frame.keys[1] # frame.keys[2]

\* the two calls pass lists that hold one and the same object, the first
\* fewer times than the second
SameObjectRepeated ==
  /\ Data(1).kind = "list" /\ Data(2).kind = "list"
  /\ Len(Data(1).items) < Len(Data(2).items)
  /\ \A j \in DOMAIN Data(1).items, k \in DOMAIN Data(2).items :
       Data(1).items[j] = Data(2).items[k]

\* C22: the calls f([x, x]) and f([x, x, x]) get different cache keys and
\* the second call executes the function again.
C22_RepeatedObject ==
  (BothReturned /\ SameObjectRepeated)
  => frame.keys[1] # frame.keys[2] /\ call_count["f"] = 2

\* C22: f([x, x]) and f([x, x, x]) have got the same key and the second call
\* has returned the result of the first without executing
C22_Collided ==
  /\ BothReturned /\ SameObjectRepeated
  /\ frame.keys[1] = frame.keys[2] /\ call_count["f"] = 1
  /\ ~th[1].executed

\* C24: two calls that differ only in the value of the parameter named in
\* ignore_fields get the same cache key, and the second returns the result
\* the first has stored, without executing the function.
C24_IgnoredFields ==
  ( /\ BothReturned /\ frame.ignore
    /\ frame.calls[1].data = frame.calls[2].data
    /\ frame.calls[1].ignored # frame.calls[2].ignored )
  => /\ frame.keys[1] = frame.keys[2]
     /\ call_count["f"] = 1
     /\ ~th[1].executed

\* C24 for arguments in which no dict holds a dict
C24_IgnoredWithoutNesting ==
  ( /\ BothReturned /\ frame.ignore
    /\ frame.calls[1].data = frame.calls[2].data
    /\ frame.calls[1].data # 19
    /\ frame.calls[1].ignored # frame.calls[2].ignored )
  => /\ frame.keys[1] = frame.keys[2]
     /\ call_count["f"] = 1
     /\ ~th[1].executed

\* C25: the traversal gives the same digest when it is repeated on the same
\* unchanged arguments.
C25_Repeatable ==
  (BothKeyed /\ frame.calls[1] = frame.calls[2]) => frame.keys[1] = frame.keys[2]

\* C25, termination: a traversal that has started ends, with a digest or
\* with the TypeError of sorted
C25_Terminates == (frame.pc = "run") ~> (frame.pc \in {"keyed", "raised"})

\* C25 for the dict that contains itself: repeated, the digest is the same
C25_Circular ==
  (BothKeyed /\ frame.calls[1] = frame.calls[2] /\ frame.calls[1].data = 17)
  => frame.keys[1] = frame.keys[2]

\* C25: the key of {"b": {"a": 1}} has been derived twice, once with the
\* inner item's tuple at a fresh address and once at the freed address of
\* the outer item's tuple, which the traversal has seen and skips
C25_Diverged ==
  /\ BothKeyed /\ frame.calls[1] = frame.calls[2] /\ frame.calls[1].data = 19
  /\ frame.keys[1] # frame.keys[2]

\* --------------------------------------------------- never-die entries stay
\* C32: an entry under a never-die key is stored without a ttl; once such a
\* key holds a value no step removes it, the Sweeper's included; and every
\* call without skip_cache made while the key holds a value returns that
\* value in the step of the call, and the function is not executed by it.
C32_NeverEvicted ==
  [][/\ \A k \in NeverDieKeys :
          /\ DictGet(CACHE', k) # NoEntry => DictGet(CACHE', k).ttl = NoTTL
          /\ DictGet(CACHE, k) # NoEntry => DictGet(CACHE', k) # NoEntry
     /\ \A t \in Callers :
          ( /\ MakesCall(t) /\ never_die(th'[t].fid) /\ ~th'[t].skip
            /\ Stored(th'[t]) # NoEntry )
          => IsHit(th'[t], Stored(th'[t])) /\ call_count' = call_count]_vars

\* C32 witness: the value of h(5) has been in the Store for longer than the
\* ttl, the Sweeper is in a pass over a snapshot that holds it, and a call
\* made after it was stored has returned it without executing
C32_Witness ==
  \E t \in Callers :
    /\ Ended(t) /\ th[t].fid = "h" /\ ~th[t].executed /\ ~th[t].exc
    /\ Stored(th[t]) # NoEntry
    /\ th[t].result = Stored(th[t]).result
    /\ now > Stored(th[t]).cached_at + TTL
    /\ sweeper.pc = "scan"
    /\ \E i \in DOMAIN sweeper.snap : sweeper.snap[i].key = KeyOf(th[t])

\* ------------------------------------------------ release of the Redis lock
\* caller t leaves the with block of RedisLockManager.sync_lock in this step
Releases(t) == IsRedis(th[t].fid) /\ th[t].pc = "unlock" /\ th'[t].pc = "idle"

\* C33: the step in which a caller releases the Redis lock leaves the
\* outcome of the critical section as it was, whether the release command
\* reaches the server or fails and whether the lock is still the caller's:
\* the result the body returned, or the exception it raised, is what the
\* call ends with, under either on_error policy.
C33_ReleaseNeverMasks ==
  [][\A t \in Callers :
       Releases(t) =>
         /\ th'[t].result = th[t].result
         /\ th'[t].exc = th[t].exc
         /\ th'[t].err = th[t].err
         /\ th'[t].executed = th[t].executed
         /\ th[t].exc => th[t].err # ""
         /\ (~th[t].exc /\ th[t].executed) => th[t].result = th[t].val]_vars

\* C33 witness: under on_error = "raise" a call has executed its function,
\* its release has failed, so that the lock key is left behind, and the call
\* has returned the function's result
C33_Witness ==
  \E t \in Callers :
    /\ redis_config.on_error = "raise"
    /\ Ended(t) /\ th[t].executed /\ ~th[t].exc /\ th[t].result # NoResult
    /\ \E l \in unreleased : l.token = <<t, th[t].n>>

\* ------------------------------------------------------ what the Sweeper drops
\* C35: every entry a step removes from the Store is expired at the moment
\* of that step; an entry written between the Sweeper's test of the key's
\* old entry and its del is not removed.
C35_SweepsOnlyExpired ==
  [][\A i \in DOMAIN CACHE :
       ~HasKey(CACHE', CACHE[i].key) => EntryIsExpired(CACHE[i].entry, now)]_vars

\* C35: the Sweeper is about to delete a key whose entry in its snapshot has
\* expired and whose entry in the Store, written since, has not
C35_FreshAtDel ==
  /\ sweeper.pc = "del"
  /\ EntryIsExpired(Head(sweeper.snap).entry, now)
  /\ HasKey(CACHE, Head(sweeper.snap).key)
  /\ ~EntryIsExpired(DictGet(CACHE, Head(sweeper.snap).key), now)

\* -------------------------------------------- refresh against foreground
\* C36: the worker of the Refresher and a caller are never both inside the
\* function for the same function id and cache key, and the worker stores
\* only while it holds the lock of that key.
C36_RefreshExcludesCall ==
  /\ [](\A t \in Callers :
          ~(th[Worker].pc = "exec" /\ th[t].pc = "exec" /\ KeyOf(th[t]) = KeyOf(th[Worker])))
  /\ [][(th[Worker].pc = "exec" /\ CACHE' # CACHE /\ th'[Worker] # th[Worker])
          => LockOf(th[Worker]) \in held]_vars

\* C36 with the lock of a key taken from a registry that holds one inner
\* dict per function id: the part of the claim that does not depend on how
\* the registry is filled
C36_SameLockExcludes ==
  \A t \in Callers :
    (th[Worker].pc = "exec" /\ th[t].pc = "exec" /\ KeyOf(th[t]) = KeyOf(th[Worker]))
    => LockOf(th[t]) # LockOf(th[Worker])

\* C36: a caller and the worker are inside h(5) at the same time
C36_Overlap ==
  \E t \in Callers :
    th[Worker].pc = "exec" /\ th[t].pc = "exec" /\ KeyOf(th[t]) = KeyOf(th[Worker])

\* ------------------------------------------------- in-flight tracking
\* C39: the Refresher passes over a due entry without starting its refresh
\* only when a refresh of that same entry is in flight; a refresh in flight
\* for another entry (another function called with the same arguments)
\* never makes it skip.
C39_InFlightPerEntry ==
  [][(refresher.pc = "spawn" /\ refresher'.pc # "spawn" /\ th'[Worker] = th[Worker])
       => LET e == NEVER_DIE_REGISTRY[Head(refresher.snap)]
          IN Identity(th[Worker]) = Identity(e)]_vars

\* C39: the Refresher is about to decide on the due entry of k while the
\* refresh thread of h is alive
C39_OtherInFlight ==
  /\ refresher.pc = "spawn"
  /\ NEVER_DIE_REGISTRY[Head(refresher.snap)].fid = "k"
  /\ NeverDieIsExpired(NEVER_DIE_REGISTRY[Head(refresher.snap)], now)
  /\ th[Worker].pc # "idle"
  /\ th[Worker].fid = "h"

\* ------------------------------------------------ nesting and repetition
\* C40: the lists [[1, 2], [3]], [[1], [2, 3]], [1, 2, 3] and [1, 2, 3, 3],
\* which have the same leaves in the same order, get pairwise different
\* digests.
C40_NestingDistinguished ==
  ( /\ BothKeyed /\ IgnoredAlike
    /\ frame.calls[1].data \in {23, 26, 27, 28}
    /\ frame.calls[2].data \in {23, 26, 27, 28}
    /\ frame.calls[1].data # frame.calls[2].data )
  => frame.keys[1] # frame.keys[2]

\* C40: f([[1, 2], [3]]) has stored its result and f([[1], [2, 3]]) has
\* returned it without executing
C40_Collided ==
  /\ BothReturned /\ IgnoredAlike
  /\ frame.calls[1].data = 23 /\ frame.calls[2].data = 26
  /\ frame.keys[1] = frame.keys[2]
  /\ call_count["f"] = 1 /\ ~th[1].executed

\* ---------------------------------------------------------- no deadlock
\* the steps of a caller inside sync_wrapper
CallerStep(t) ==
  \/ LockLookup(t)
  \/ LockCreate(t)
  \/ Acquire(t)
  \/ Recheck(t)
  \/ Return(t)
  \/ Raise(t)
  \/ Release(t)

\* the callers of Spec under a fair scheduler: a thread that can take a
\* step is not passed over for ever, and the wrapped function, once entered,
\* returns or raises
SpecFair == Init /\ [][Next]_vars /\ \A t \in Callers : WF_vars(CallerStep(t))

\* C34: on the in-process backend every call of a finite set of concurrent
\* calls on one key eventually returns or raises, the wrapped function
\* terminating and the scheduler being fair.
C34_NoDeadlock == \A t \in Callers : (th[t].pc # "idle") ~> (th[t].pc = "idle")

\* C34: a caller waits for the lock of the key while another caller, who
\* holds it, is in the function
C34_Witness ==
  \E t, u \in Callers :
    /\ t # u
    /\ th[t].pc = "acquire" /\ th[u].pc = "exec"
    /\ LockOf(th[t]) = LockOf(th[u])
    /\ LockOf(th[u]) \in held

\* ------------------------------------- the native expiry of a Redis key
\* RedisStorage.set with a ttl that need not be a whole number of seconds.
\* In this specification the clock now counts ticks of 1/Den second, a ttl
\* is a number of ticks, and client and server read the same clock.
Den == 2
MaxNativeTTL == 5
MaxNativeTime == 8

\* int(ttl) of a ttl >= 0 given in ticks, in seconds: truncation
int(ttl) == ttl \div Den

\* the variables RedisStorage.set and the clock leave alone
setvars == <<CACHE, lockvars, call_count, th, sweeper, space, budget, redisvars, ndvars, SHADOW, skipped, raised, last, frame, loops, loop_closed, NEVER_DIE_CACHE_THREADS, refresh_threads>>

\* redis_storage.py, line 87: entry = RedisCacheEntry(result, ttl), of a
\* function decorated with ttl (a number > 0, or None)
NativeBuild(ttl) ==
  /\ native.pc = "idle"
  /\ native' = [native EXCEPT !.pc = "built", !.entry = CacheEntry(<<"r", 5, 1>>, ttl, now)]
  /\ UNCHANGED <<now, setvars>>

\* a set that gives the key ttl truncated to seconds as its expiry
NativeSendExact ==
  /\ native.pc = "built"
  /\ native' = [native EXCEPT
                  !.pc = "idle",
                  !.key = native.entry,
                  !.deadline = IF native.entry.ttl = NoTTL THEN NoTTL
                               ELSE now + int(native.entry.ttl) * Den]
  /\ UNCHANGED <<now, setvars>>

\* lines 91-95: the command reaches the server, some time after the entry
\* was built: set without an expiry when ttl is None, else setex with
\* int(ttl) + 1 seconds, counted by the server from now
NativeSend ==
  /\ native.pc = "built"
  /\ native' = [native EXCEPT
                  !.pc = "idle",
                  !.key = native.entry,
                  !.deadline = IF native.entry.ttl = NoTTL THEN NoTTL
                               ELSE now + (int(native.entry.ttl) + 1) * Den]
  /\ UNCHANGED <<now, setvars>>

\* the server drops a key whose expiry has come
NativeEvict ==
  /\ native.key # NoEntry
  /\ native.deadline # NoTTL
  /\ now >= native.deadline
  /\ native' = [native EXCEPT !.key = NoEntry, !.deadline = NoTTL]
  /\ UNCHANGED <<now, setvars>>

NativeTick ==
  /\ now < MaxNativeTime
  /\ now' = now + 1
  /\ UNCHANGED <<native, setvars>>

NextNative ==
  \/ \E ttl \in (1..MaxNativeTTL) \cup {NoTTL} : NativeBuild(ttl)
  \/ NativeSend
  \/ NativeEvict
  \/ NativeTick

SpecNative == Init /\ [][NextNative]_vars

\* C31: a key written with ttl t is given int(t) + 1 seconds to live, which
\* ends strictly after the entry's logical expiry for every t > 0, so that
\* the server never drops an entry that is_expired() would still find fresh;
\* a key written with no ttl is given no expiry.
C31_NativeExpiry ==
  [][/\ (native.pc = "built" /\ native'.pc = "idle") =>
          IF native.entry.ttl = NoTTL
          THEN native'.deadline = NoTTL
          ELSE /\ native'.deadline - now = (int(native.entry.ttl) + 1) * Den
               /\ native'.deadline > native'.key.expires_at
     /\ (native.key # NoEntry /\ native'.key = NoEntry) =>
          EntryIsExpired(native.key, now)]_vars

\* C31: the server has dropped a key written with a ttl of one second and a
\* half at the earliest moment it may
C31_Witness ==
  /\ native.key = NoEntry
  /\ native.pc = "idle"
  /\ native.entry.ttl = Den + 1
  /\ now = native.entry.cached_at + (int(native.entry.ttl) + 1) * Den

\* --------------------------------------------- clear_never_die_registry
\* The Refresher, the threads it starts and clear_never_die_registry. The
\* entries are objects: refresh_threads.objs holds every entry created so
\* far, refresh_threads.serial the objects the registry refers to (of which
\* NEVER_DIE_REGISTRY shows the present state), refresh_threads.of the entry
\* each thread was started for and refresh_threads.alive the threads that
\* have not ended. The snapshots of the Refresher refer to entries and to
\* threads, which outlive their removal from the registry and from the dict.
MaxEntries == 3
MaxRefreshes == 2
MaxClears == 1

clearvars == <<lockvars, th, sweeper, space, budget, redisvars, failures, SHADOW, skipped, raised, last, frame, loops, loop_closed, native>>

\* the registry as the objects it refers to show it
Registry(rt) == [i \in DOMAIN rt.serial |-> rt.objs[rt.serial[i]]]

\* _cache_is_being_set, line 110, for an entry of a function (entry.loop is
\* None): the dict has a thread under the entry's cache key and it is alive
cache_is_being_set(e) ==
  \E i \in DOMAIN NEVER_DIE_CACHE_THREADS :
    /\ NEVER_DIE_CACHE_THREADS[i].key = CreateCacheKey(e.arg)
    /\ NEVER_DIE_CACHE_THREADS[i].thread \in refresh_threads.alive

\* register_never_die_function, lines 174-202, called by sync_wrapper for
\* f(5): under _NEVER_DIE_LOCK the entry built is appended unless an equal
\* one is registered, then _start_never_die_thread starts the Refresher
\* unless it is alive
ClearRegister(f) ==
  /\ ~refresh_threads.clearing
  /\ LET rt == refresh_threads
         known == \E i \in DOMAIN NEVER_DIE_REGISTRY : SameEntry(NEVER_DIE_REGISTRY[i], f, 5)
         new == Len(rt.objs) + 1
         again == {o \in rt.cleared : SameEntry(rt.objs[o], f, 5)}
     IN /\ known \/ new <= MaxEntries
        /\ refresh_threads' =
             IF known THEN rt
             ELSE [rt EXCEPT !.objs = Append(@, NeverDieCacheEntry(f, 5, now)),
                             !.serial = Append(@, new),
                             !.cleared = @ \ again]
  /\ NEVER_DIE_REGISTRY' = Registry(refresh_threads')
  /\ refresher' = IF refresher.pc \in {"off", "dead"}
                  THEN [pc |-> "sleep", snap |-> <<>>]
                  ELSE refresher
  /\ UNCHANGED <<now, CACHE, call_count, NEVER_DIE_CACHE_THREADS, clearvars>>

\* _refresh_never_die_caches, line 132: for entry in list(_NEVER_DIE_REGISTRY)
ClearScan ==
  /\ refresher.pc = "sleep"
  /\ refresher' = [pc |-> "scan", snap |-> refresh_threads.serial]
  /\ UNCHANGED <<now, CACHE, call_count, NEVER_DIE_REGISTRY, NEVER_DIE_CACHE_THREADS, refresh_threads, clearvars>>

\* lines 133-142, one entry of the list: skipped unless it is expired and no
\* thread for its cache key is alive; else a thread is started for it and
\* put into the dict under the cache key
ClearVisit ==
  /\ refresher.pc = "scan"
  /\ refresher.snap # <<>>
  /\ refresher' = [refresher EXCEPT !.snap = Tail(@)]
  /\ LET o == Head(refresher.snap)
         e == refresh_threads.objs[o]
         thread == Len(refresh_threads.of) + 1
         key == CreateCacheKey(e.arg)
     IN IF NeverDieIsExpired(e, now) /\ ~cache_is_being_set(e)
        THEN /\ thread <= MaxRefreshes
             /\ refresh_threads' = [refresh_threads EXCEPT !.of = Append(@, o),
                                                           !.alive = @ \cup {thread}]
             /\ NEVER_DIE_CACHE_THREADS' =
                  IF \E i \in DOMAIN NEVER_DIE_CACHE_THREADS : NEVER_DIE_CACHE_THREADS[i].key = key
                  THEN [i \in DOMAIN NEVER_DIE_CACHE_THREADS |->
                          IF NEVER_DIE_CACHE_THREADS[i].key = key
                          THEN [key |-> key, thread |-> thread]
                          ELSE NEVER_DIE_CACHE_THREADS[i]]
                  ELSE Append(NEVER_DIE_CACHE_THREADS, [key |-> key, thread |-> thread])
        ELSE UNCHANGED <<refresh_threads, NEVER_DIE_CACHE_THREADS>>
  /\ UNCHANGED <<now, CACHE, call_count, NEVER_DIE_REGISTRY, clearvars>>

\* lines 158-161 and 122: the list is done; after the sleep
\* _clear_dead_futures finds no future (no coroutine function is registered
\* here) and _clear_dead_threads takes list(_NEVER_DIE_CACHE_THREADS.items())
ClearDeadStart ==
  /\ refresher.pc = "scan"
  /\ refresher.snap = <<>>
  /\ refresher' = [pc |-> "cleanup", snap |-> NEVER_DIE_CACHE_THREADS]
  /\ UNCHANGED <<now, CACHE, call_count, NEVER_DIE_REGISTRY, NEVER_DIE_CACHE_THREADS, refresh_threads, clearvars>>

\* lines 123-124: if thread.is_alive(): continue; and the return to the
\* while loop after the last item
ClearDeadCheck ==
  /\ refresher.pc = "cleanup"
  /\ refresher' =
       IF refresher.snap = <<>> THEN [pc |-> "sleep", snap |-> <<>>]
       ELSE IF Head(refresher.snap).thread \in refresh_threads.alive
       THEN [refresher EXCEPT !.snap = Tail(@)]
       ELSE [refresher EXCEPT !.pc = "del"]
  /\ UNCHANGED <<now, CACHE, call_count, NEVER_DIE_REGISTRY, NEVER_DIE_CACHE_THREADS, refresh_threads, clearvars>>

\* a removal that passes over a key the dict no longer has
ClearDeadPop ==
  /\ refresher.pc = "del"
  /\ NEVER_DIE_CACHE_THREADS' =
       SelectSeq(NEVER_DIE_CACHE_THREADS, LAMBDA it : it.key # Head(refresher.snap).key)
  /\ refresher' = [pc |-> "cleanup", snap |-> Tail(refresher.snap)]
  /\ UNCHANGED <<now, CACHE, call_count, NEVER_DIE_REGISTRY, refresh_threads, clearvars>>

\* line 125: del _NEVER_DIE_CACHE_THREADS[cache_key]; the KeyError of a key
\* the dict no longer has leaves the finally clause and the while loop, and
\* the Refresher thread ends
ClearDeadDel ==
  /\ refresher.pc = "del"
  /\ LET key == Head(refresher.snap).key
     IN IF \E i \in DOMAIN NEVER_DIE_CACHE_THREADS : NEVER_DIE_CACHE_THREADS[i].key = key
        THEN /\ NEVER_DIE_CACHE_THREADS' =
                  SelectSeq(NEVER_DIE_CACHE_THREADS, LAMBDA it : it.key # key)
             /\ refresher' = [pc |-> "cleanup", snap |-> Tail(refresher.snap)]
        ELSE /\ refresher' = [pc |-> "dead", snap |-> <<>>]
             /\ UNCHANGED NEVER_DIE_CACHE_THREADS
  /\ UNCHANGED <<now, CACHE, call_count, NEVER_DIE_REGISTRY, refresh_threads, clearvars>>

\* _run_sync_function_and_cache, lines 79-83, of a thread the Refresher has
\* started (no caller is in the function in this specification, the lock of
\* the key is free): the function is executed, its result stored without a
\* ttl and the thread's entry reset; the thread ends
ThreadEnd(thread) ==
  /\ thread \in refresh_threads.alive
  /\ LET o == refresh_threads.of[thread]
         e == refresh_threads.objs[o]
     IN /\ call_count' = [call_count EXCEPT ![e.fid] = Bump(@)]
        /\ CACHE' = MemorySet(CACHE, e.fid, CreateCacheKey(e.arg),
                              <<e.fid, e.arg, Bump(call_count[e.fid])>>, NoTTL, now)
        /\ refresh_threads' = [refresh_threads EXCEPT !.alive = @ \ {thread},
                                                      !.objs[o] = reset(@, now)]
  /\ NEVER_DIE_REGISTRY' = Registry(refresh_threads')
  /\ UNCHANGED <<now, refresher, NEVER_DIE_CACHE_THREADS, clearvars>>

\* lines 84-89: the function raises; the thread's entry is revived and the
\* thread ends
ThreadRaise(thread) ==
  /\ thread \in refresh_threads.alive
  /\ LET o == refresh_threads.of[thread]
         e == refresh_threads.objs[o]
     IN /\ call_count' = [call_count EXCEPT ![e.fid] = Bump(@)]
        /\ refresh_threads' = [refresh_threads EXCEPT !.alive = @ \ {thread},
                                                      !.objs[o] = revive(@, now)]
  /\ NEVER_DIE_REGISTRY' = Registry(refresh_threads')
  /\ UNCHANGED <<now, CACHE, refresher, NEVER_DIE_CACHE_THREADS, clearvars>>

\* clear_never_die_registry, lines 212-213: _NEVER_DIE_LOCK is taken, which
\* the Refresher never takes, and the registry is cleared
ClearEntries ==
  /\ ~refresh_threads.clearing
  /\ refresh_threads.clears < MaxClears
  /\ refresh_threads' =
       [refresh_threads EXCEPT
          !.clearing = TRUE, !.clears = @ + 1, !.serial = <<>>,
          !.pending = {refresh_threads.serial[i] : i \in DOMAIN refresh_threads.serial}]
  /\ NEVER_DIE_REGISTRY' = <<>>
  /\ UNCHANGED <<now, CACHE, call_count, refresher, NEVER_DIE_CACHE_THREADS, clearvars>>

\* lines 214-215: the dicts of the threads and of the futures are cleared,
\* the lock is released and clear_never_die_registry returns
ClearThreads ==
  /\ refresh_threads.clearing
  /\ NEVER_DIE_CACHE_THREADS' = <<>>
  /\ refresh_threads' =
       [refresh_threads EXCEPT !.clearing = FALSE, !.pending = {},
                               !.cleared = @ \cup refresh_threads.pending]
  /\ UNCHANGED <<now, CACHE, call_count, refresher, NEVER_DIE_REGISTRY, clearvars>>

NextClear ==
  \/ \E f \in {"h", "k"} : ClearRegister(f)
  \/ ClearScan
  \/ ClearVisit
  \/ ClearDeadStart
  \/ ClearDeadCheck
  \/ ClearDeadDel
  \/ \E thread \in 1..MaxRefreshes : ThreadEnd(thread)
  \/ \E thread \in 1..MaxRefreshes : ThreadRaise(thread)
  \/ ClearEntries
  \/ ClearThreads
  \/ Tick

SpecClear == Init /\ [][NextClear]_vars

\* C37: the Refresher, once started, does not end, whatever
\* clear_never_die_registry does while the Refresher scans the registry and
\* removes the dead threads.
C37_RefresherNeverExits == refresher.pc # "dead"

\* C37: the Refresher is about to delete the key of a dead thread from the
\* dict which clear_never_die_registry has emptied
C37_ClearedUnderDel ==
  /\ refresher.pc = "del"
  /\ NEVER_DIE_CACHE_THREADS = <<>>
  /\ refresh_threads.clears > 0

\* C38: once clear_never_die_registry has returned, the Refresher starts no
\* thread for an entry that was registered before the clear and has not been
\* registered again.
C38_NoRefreshAfterClear ==
  [][Len(refresh_threads'.of) > Len(refresh_threads.of)
       => refresh_threads'.of[Len(refresh_threads'.of)] \notin refresh_threads.cleared]_vars

\* C38: the Refresher is at an entry of its list that the clear, which has
\* returned, removed from the registry; the entry is due and no thread is
\* in the dict
C38_StaleInList ==
  /\ refresher.pc = "scan"
  /\ refresher.snap # <<>>
  /\ Head(refresher.snap) \in refresh_threads.cleared
  /\ NeverDieIsExpired(refresh_threads.objs[Head(refresher.snap)], now)
  /\ NEVER_DIE_REGISTRY = <<>>
  /\ ~refresh_threads.clearing

====
